---- MODULE Spec2Model ----
(***************************************************************************)
(* Trending query analysis of nigerian-datasets-be: the embedding cache,   *)
(* VertexAITrendingAnalyzer (trends/analyzers.py) and the similar-queries  *)
(* request validation (trends/serializers.py, trends/views.py), and the    *)
(* model singleton ModelCache (trends/model_cache.py) under threads.        *)
(* Requests are answered one at a time in Spec, SpecSimilar, SpecEncode    *)
(* and SpecClustering; SpecConcurrentEncode runs two encode_queries calls  *)
(* step by step, SpecModelCache runs get_model in several threads.         *)
(*                                                                         *)
(* Strings are sequences of one-character strings, so that strip() is an   *)
(* operation on them.  An embedding is a sequence of integers.  A cosine   *)
(* similarity c is kept exactly, as the rational sgn(c)*c^2 = num/den,     *)
(* which orders like c; a percentage is kept as the rational num/den.      *)
(* Floating-point rounding is not part of the model.                       *)
(***************************************************************************)
EXTENDS Integers, Sequences, FiniteSets, TLC

\* Python None where an embedding is expected; no embedding modelled is empty
None == <<>>

\* ---------------------------------------------------------------- bounds
MaxLen == 4
MaxCandidates == 3
MaxTopN == 2
MaxTopK == 2
MaxReqLen == 2
MaxEncodeLen == 3
MaxClusterLen == 5
MaxNameWords == 3
MaxRows == 3

\* ------------------------------------------------------- input universes
QA == <<"a">>
QB == <<"b">>
QC == <<"c">>
Queries == {QA, QB, QC}

\* Embeddings stored with a search-log row (SearchQuery.embedding)
StoredEmbeddings == {<<1, 3>>}

Entries == Queries \X (StoredEmbeddings \cup {None})

RECURSIVE SeqsUpTo(_, _)
SeqsUpTo(S, n) ==
    IF n = 0 THEN {<<>>}
    ELSE LET shorter == SeqsUpTo(S, n - 1)
         IN  shorter \cup {Append(s, x) : s \in {t \in shorter : Len(t) = n - 1}, x \in S}

\* the entries of the batches that are analysed and clustered: every query
\* without a stored embedding, and one query with one
AnalysisEntries == (Queries \X {None}) \cup ({QA} \X StoredEmbeddings)
Batches == SeqsUpTo(AnalysisEntries, MaxLen)
Candidates == SeqsUpTo(Entries, MaxCandidates)
EncodeBatches == SeqsUpTo(Entries, MaxEncodeLen)
ClusterBatches == SeqsUpTo(AnalysisEntries, MaxClusterLen)
TopNs == (0 - 1)..MaxTopN
TopKs == 1..MaxTopK

\* ------------------------------------------------------ generic helpers
Min(a, b) == IF a < b THEN a ELSE b
Max(a, b) == IF a > b THEN a ELSE b
Sgn(x) == IF x > 0 THEN 1 ELSE IF x < 0 THEN 0 - 1 ELSE 0

Range(s) == {s[i] : i \in 1..Len(s)}

\* Python s[:n], n of either sign
SliceTo(s, n) ==
    IF n >= 0 THEN SubSeq(s, 1, Min(n, Len(s)))
    ELSE SubSeq(s, 1, Max(Len(s) + n, 0))

RECURSIVE SumSeq(_)
SumSeq(s) == IF s = <<>> THEN 0 ELSE s[1] + SumSeq(Tail(s))

\* first-occurrence order of the distinct elements of s
RECURSIVE Distinct(_)
Distinct(s) ==
    IF s = <<>> THEN <<>>
    ELSE LET d == Distinct(SubSeq(s, 1, Len(s) - 1))
             x == s[Len(s)]
         IN  IF x \in Range(d) THEN d ELSE Append(d, x)

CountOf(s, x) == Cardinality({i \in 1..Len(s) : s[i] = x})

\* sorted(categories, key=lambda x: x["query_count"], reverse=True): stable
RECURSIVE InsertDesc(_, _)
InsertDesc(sorted, x) ==
    IF sorted = <<>> THEN <<x>>
    ELSE IF sorted[1].query_count >= x.query_count
         THEN <<sorted[1]>> \o InsertDesc(Tail(sorted), x)
         ELSE <<x>> \o sorted

RECURSIVE SortedDesc(_)
SortedDesc(items) ==
    IF items = <<>> THEN <<>>
    ELSE InsertDesc(SortedDesc(SubSeq(items, 1, Len(items) - 1)), items[Len(items)])

\* ------------------------------------------------------ cosine similarity
Dot(a, b) == SumSeq([k \in 1..Len(a) |-> a[k] * b[k]])
NormSq(a) == Dot(a, a)

\* sklearn cosine_similarity: rows are normalised, a zero row stays zero
cosine_similarity(a, b) ==
    IF NormSq(a) = 0 \/ NormSq(b) = 0
    THEN [num |-> 0, den |-> 1]
    ELSE [num |-> Sgn(Dot(a, b)) * Dot(a, b) * Dot(a, b), den |-> NormSq(a) * NormSq(b)]

\* s >= p/q for a similarity s and a threshold p/q > 0
SimAtLeast(s, p, q) == s.num * q * q >= p * p * s.den
SimLeq(s, t) == s.num * t.den <= t.num * s.den

similarity_threshold == [p |-> 7, q |-> 10]
min_similarity_score == [p |-> 1, q |-> 10]

\* --------------------------------------------------- embedding provider
\* TextEmbeddingModel.get_embeddings: one 2-dimensional vector per text
TextEmbedding(q) ==
    IF q = QA THEN <<1, 0>> ELSE IF q = QB THEN <<1, 1>> ELSE <<0, 1>>

\* the vectors the remote provider may answer for one text: it need not
\* answer twice alike, bit for bit
ProviderVectors(q) ==
    {TextEmbedding(q), [k \in 1..Len(TextEmbedding(q)) |-> 2 * TextEmbedding(q)[k]]}

\* self.batch_size, scaled from 32 so that a call has more than one batch
batch_size == 2

NumBatches(uncached) == (Len(uncached) + batch_size - 1) \div batch_size

\* ------------------------------------------------------- encode_queries
QueriesOf(query_data) == [i \in 1..Len(query_data) |-> query_data[i][1]]

\* final_embeddings_map after the first loop: the last stored embedding given
\* for each query
SuppliedMap(query_data) ==
    [q \in Queries |->
        LET at == {i \in 1..Len(query_data) :
                      query_data[i][1] = q /\ query_data[i][2] # None}
        IN  IF at = {} THEN None
            ELSE query_data[CHOOSE i \in at : \A j \in at : j <= i][2]]

QueriesToFetch(query_data) ==
    QueriesOf(SelectSeq(query_data, LAMBDA e : e[2] = None))

\* np.array(list).size; the list is rectangular here
ArraySize(embeddings) ==
    IF embeddings = <<>> THEN 0 ELSE Len(embeddings) * Len(embeddings[1])

Ragged(embeddings) ==
    \E i, j \in 1..Len(embeddings) : Len(embeddings[i]) # Len(embeddings[j])

\* queries the cache does not answer, in the order they are looked up
UncachedQueries(queries_to_fetch, ch) ==
    SelectSeq(queries_to_fetch, LAMBDA q : ch[q] = None)

\* variant: one row per key of the maps rather than per input query
FinalEmbeddingsListPerKey(queries, final_embeddings_map, new_embeddings) ==
    LET keys == Distinct(queries)
    IN  [i \in 1..Len(keys) |->
            IF final_embeddings_map[keys[i]] # None
            THEN final_embeddings_map[keys[i]]
            ELSE new_embeddings[keys[i]]]

\* the last loop: one row per input query, from final_embeddings_map first
FinalEmbeddingsList(queries, final_embeddings_map, new_embeddings) ==
    [i \in 1..Len(queries) |->
        IF final_embeddings_map[queries[i]] # None
        THEN final_embeddings_map[queries[i]]
        ELSE new_embeddings[queries[i]]]

\* variant: the handler returning the rows found before the error
ProviderErrorResultPartial(queries, final_embeddings_map, new_embeddings) ==
    SelectSeq(FinalEmbeddingsList(queries, final_embeddings_map, new_embeddings),
              LAMBDA e : e # None)

\* "except Exception: return np.array([])"
ProviderErrorResult(queries, final_embeddings_map, new_embeddings) == <<>>

EncodeResult(status, embeddings, ch, remote, gets, sets, providerFailed) ==
    [status |-> status, embeddings |-> embeddings, cache |-> ch,
     remote_calls |-> remote, cache_gets |-> gets, cache_sets |-> sets,
     provider_failed |-> providerFailed]

\* variant: the fetched embeddings written to the cache only when no batch
\* has failed
CacheAfterSetsUnlessFailed(ch, new_embeddings, failed) ==
    IF failed THEN ch
    ELSE [q \in Queries |->
             IF new_embeddings[q] # None THEN new_embeddings[q] ELSE ch[q]]

\* the cache after the cache.set of every fetched embedding, each done as
\* soon as its batch is answered
CacheAfterSets(ch, new_embeddings, failed) ==
    [q \in Queries |->
        IF new_embeddings[q] # None THEN new_embeddings[q] ELSE ch[q]]

\* answers: what get_embeddings answers for each text during this call.
\* cacheUp: whether the cache backend answers; failAt: the batch on which
\* get_embeddings raises (0: none).  status "raise" is an exception leaving
\* encode_queries; embeddings <<>> is np.array([]).
EncodeQueriesVia(answers, query_data, ch, cacheUp, failAt) ==
    IF query_data = <<>> THEN EncodeResult("ok", <<>>, ch, 0, 0, 0, FALSE)
    ELSE
    LET queries == QueriesOf(query_data)
        to_fetch == QueriesToFetch(query_data)
        supplied == SuppliedMap(query_data)
    IN  IF to_fetch # <<>> /\ ~cacheUp
        THEN EncodeResult("raise", <<>>, ch, 0, 1, 0, FALSE)
        ELSE
        LET final_embeddings_map ==
                [q \in Queries |->
                    IF q \in Range(to_fetch) /\ ch[q] # None THEN ch[q] ELSE supplied[q]]
            uncached_queries == UncachedQueries(to_fetch, ch)
            failed == failAt \in 1..NumBatches(uncached_queries)
            fetched == IF failed THEN (failAt - 1) * batch_size
                       ELSE Len(uncached_queries)
            new_embeddings ==
                [q \in Queries |->
                    IF \E i \in 1..fetched : uncached_queries[i] = q
                    THEN answers[q] ELSE None]
            cache2 == CacheAfterSets(ch, new_embeddings, failed)
            remote == IF failed THEN failAt ELSE NumBatches(uncached_queries)
            gets == Len(to_fetch)
            missing == \E i \in 1..Len(queries) :
                          /\ final_embeddings_map[queries[i]] = None
                          /\ new_embeddings[queries[i]] = None
            final_embeddings_list ==
                FinalEmbeddingsList(queries, final_embeddings_map, new_embeddings)
        IN  IF failed
            THEN EncodeResult("ok",
                              ProviderErrorResult(queries, final_embeddings_map,
                                                  new_embeddings),
                              cache2, remote, gets, fetched, TRUE)
            ELSE IF missing
            THEN EncodeResult("ok", <<>>, cache2, remote, gets, fetched, FALSE)
            ELSE IF Ragged(final_embeddings_list)
            THEN EncodeResult("raise", <<>>, cache2, remote, gets, fetched, FALSE)
            ELSE EncodeResult("ok", final_embeddings_list, cache2, remote, gets,
                              fetched, FALSE)

\* encode_queries against a provider that answers TextEmbedding
encode_queries(query_data, ch, cacheUp, failAt) ==
    EncodeQueriesVia([q \in Queries |-> TextEmbedding(q)], query_data, ch,
                     cacheUp, failAt)

\* --------------------------------------------------- semantic clustering
SimilarityMatrix(embeddings) ==
    [i \in 1..Len(embeddings) |->
        [j \in 1..Len(embeddings) |-> cosine_similarity(embeddings[i], embeddings[j])]]

\* variant: the comprehension without "and j not in clustered"
SimilarIndicesAnyCluster(row, clustered) ==
    SelectSeq([j \in 1..Len(row) |-> j],
              LAMBDA j : SimAtLeast(row[j], similarity_threshold.p, similarity_threshold.q))

\* variant: the comprehension without "sim >= self.similarity_threshold"
SimilarIndicesAnySimilarity(row, clustered) ==
    SelectSeq([j \in 1..Len(row) |-> j], LAMBDA j : j \notin clustered)

\* [j for j, sim in enumerate(row) if sim >= threshold and j not in clustered]
SimilarIndices(row, clustered) ==
    SelectSeq([j \in 1..Len(row) |-> j],
              LAMBDA j : /\ SimAtLeast(row[j], similarity_threshold.p, similarity_threshold.q)
                         /\ j \notin clustered)

RECURSIVE ClustersFrom(_, _, _, _)
ClustersFrom(similarity_matrix, i, clustered, clusters) ==
    IF i > Len(similarity_matrix) THEN clusters
    ELSE IF i \in clustered
    THEN ClustersFrom(similarity_matrix, i + 1, clustered, clusters)
    ELSE LET similar_indices == SimilarIndices(similarity_matrix[i], clustered)
         IN  ClustersFrom(similarity_matrix, i + 1,
                          clustered \cup Range(similar_indices),
                          Append(clusters, similar_indices))

\* variant: every row gathered without the set of clustered indices
CreateClustersPerRow(similarity_matrix) ==
    [i \in 1..Len(similarity_matrix) |-> SimilarIndices(similarity_matrix[i], {})]

create_clusters(similarity_matrix) == ClustersFrom(similarity_matrix, 1, {}, <<>>)

\* ------------------------------------------------------- category names
\* str.lower() and str.upper() on the characters that occur
LowerCase == <<"a", "b", "c", "o", "t", "x">>
UpperCase == <<"A", "B", "C", "O", "T", "X">>

IsAlpha(ch) == ch \in Range(LowerCase) \cup Range(UpperCase)
IsSpace(ch) == ch = " "

LowerChar(ch) ==
    IF ch \in Range(UpperCase)
    THEN LowerCase[CHOOSE k \in 1..Len(UpperCase) : UpperCase[k] = ch] ELSE ch

UpperChar(ch) ==
    IF ch \in Range(LowerCase)
    THEN UpperCase[CHOOSE k \in 1..Len(LowerCase) : LowerCase[k] = ch] ELSE ch

Lower(str) == [i \in 1..Len(str) |-> LowerChar(str[i])]

\* str.title(): a letter after a non-letter is upper-cased, any other letter
\* lower-cased
Title(str) ==
    [i \in 1..Len(str) |->
        IF i = 1 \/ ~IsAlpha(str[i - 1]) THEN UpperChar(str[i]) ELSE LowerChar(str[i])]

\* str.isalpha()
IsAlphaWord(word) == word # <<>> /\ \A i \in 1..Len(word) : IsAlpha(word[i])

\* str.split(): the maximal runs of non-space characters
RECURSIVE SplitFrom(_, _, _, _)
SplitFrom(str, i, word, words) ==
    IF i > Len(str)
    THEN IF word = <<>> THEN words ELSE Append(words, word)
    ELSE IF IsSpace(str[i])
    THEN SplitFrom(str, i + 1, <<>>,
                   IF word = <<>> THEN words ELSE Append(words, word))
    ELSE SplitFrom(str, i + 1, Append(word, str[i]), words)

Split(str) == SplitFrom(str, 1, <<>>, <<>>)

\* " ".join(words)
RECURSIVE JoinWords(_)
JoinWords(words) ==
    IF words = <<>> THEN <<>>
    ELSE IF Len(words) = 1 THEN words[1]
    ELSE words[1] \o <<" ">> \o JoinWords(Tail(words))

\* trends.constants.ENGLISH_STOPWORDS, as far as the words that occur
ENGLISH_STOPWORDS == {<<"t", "o">>, <<"t", "o", "o">>}

\* variant: the comprehension without "word not in ENGLISH_STOPWORDS"
ExtractCategoryNameAnyWord(representative_query) ==
    LET kept == SelectSeq(Split(Lower(representative_query)),
                          LAMBDA word : Len(word) > 2 /\ IsAlphaWord(word))
        words == [k \in 1..Len(kept) |-> Title(kept[k])]
    IN  IF words # <<>> THEN JoinWords(SliceTo(words, 3))
        ELSE Title(representative_query)

extract_category_name(representative_query) ==
    LET kept == SelectSeq(Split(Lower(representative_query)),
                          LAMBDA word : /\ Len(word) > 2
                                        /\ word \notin ENGLISH_STOPWORDS
                                        /\ IsAlphaWord(word))
        words == [k \in 1..Len(kept) |-> Title(kept[k])]
    IN  IF words # <<>> THEN JoinWords(SliceTo(words, 3))
        ELSE Title(representative_query)

\* position in the cluster of the member nearest to the centroid; distances
\* are compared as n^2 * |emb - mean|^2, and argmin takes the first minimum
RepresentativeIdx(cluster_embeddings) ==
    LET n == Len(cluster_embeddings)
        dim == Len(cluster_embeddings[1])
        total == [k \in 1..dim |-> SumSeq([m \in 1..n |-> cluster_embeddings[m][k]])]
        dist(m) == SumSeq([k \in 1..dim |->
                      (n * cluster_embeddings[m][k] - total[k])
                      * (n * cluster_embeddings[m][k] - total[k])])
    IN  CHOOSE m \in 1..n :
            /\ \A o \in 1..n : dist(m) <= dist(o)
            /\ \A o \in 1..(m - 1) : dist(o) > dist(m)

get_representative_query(cluster_queries, cluster_embeddings) ==
    cluster_queries[RepresentativeIdx(cluster_embeddings)]

\* (count / total) * 100, exactly
Percentage(count, total) == [num |-> count * 100, den |-> total]

\* cluster_indices is kept beside the category to state which input entries
\* it covers; it is not a field of the response
build_category_from_cluster(cluster_indices, queries, embeddings) ==
    LET cluster_queries == [m \in 1..Len(cluster_indices) |-> queries[cluster_indices[m]]]
        cluster_embeddings ==
            [m \in 1..Len(cluster_indices) |-> embeddings[cluster_indices[m]]]
    IN  [category_name |->
             extract_category_name(
                 get_representative_query(cluster_queries, cluster_embeddings)),
         query_count |-> Len(cluster_queries),
         percentage_of_total |-> Percentage(Len(cluster_queries), Len(queries)),
         sample_queries |-> SliceTo(cluster_queries, 3),
         representative_query |->
             get_representative_query(cluster_queries, cluster_embeddings),
         cluster_indices |-> Range(cluster_indices)]

RECURSIVE CategoriesOf(_, _, _)
CategoriesOf(clusters, queries, embeddings) ==
    IF clusters = <<>> THEN <<>>
    ELSE LET rest == CategoriesOf(Tail(clusters), queries, embeddings)
         IN  IF Len(clusters[1]) < 2 THEN rest
             ELSE <<build_category_from_cluster(clusters[1], queries, embeddings)>> \o rest

\* variant: without "if len(cluster_indices) < 2: continue"
SemanticClusteringAnySize(queries, embeddings, top_n) ==
    LET clusters == create_clusters(SimilarityMatrix(embeddings))
        categories == [k \in 1..Len(clusters) |->
                          build_category_from_cluster(clusters[k], queries, embeddings)]
    IN  SliceTo(SortedDesc(categories), top_n)

\* variant: the slice taken before the sort
SemanticClusteringCutFirst(queries, embeddings, top_n) ==
    LET clusters == create_clusters(SimilarityMatrix(embeddings))
    IN  SortedDesc(SliceTo(CategoriesOf(clusters, queries, embeddings), top_n))

semantic_clustering(queries, embeddings, top_n) ==
    LET clusters == create_clusters(SimilarityMatrix(embeddings))
    IN  SliceTo(SortedDesc(CategoriesOf(clusters, queries, embeddings)), top_n)

\* ---------------------------------------------------- frequency fallback
\* variant: the percentage taken against len(query_counts), the number
\* of distinct queries
FrequencyClusteringPerDistinct(queries, top_n) ==
    LET keys == Distinct(queries)
        items == [k \in 1..Len(keys) |->
                    [category_name |-> keys[k],
                     query_count |-> CountOf(queries, keys[k]),
                     percentage_of_total |->
                         Percentage(CountOf(queries, keys[k]), Len(keys)),
                     sample_queries |-> <<keys[k]>>,
                     representative_query |-> keys[k],
                     cluster_indices |-> {i \in 1..Len(queries) : queries[i] = keys[k]}]]
    IN  IF top_n <= 0 THEN <<>> ELSE SliceTo(SortedDesc(items), top_n)

\* variant: the counts taken in first-occurrence order, not most_common
FrequencyClusteringUnsorted(queries, top_n) ==
    LET total_queries == Len(queries)
        keys == Distinct(queries)
        items == [k \in 1..Len(keys) |->
                    [category_name |-> keys[k],
                     query_count |-> CountOf(queries, keys[k]),
                     percentage_of_total |->
                         Percentage(CountOf(queries, keys[k]), total_queries),
                     sample_queries |-> <<keys[k]>>,
                     representative_query |-> keys[k],
                     cluster_indices |-> {i \in 1..Len(queries) : queries[i] = keys[k]}]]
    IN  IF top_n <= 0 THEN <<>> ELSE SliceTo(items, top_n)

\* Counter(queries).most_common(top_n): heapq.nlargest, [] for top_n <= 0,
\* equal counts in first-occurrence order
frequency_clustering(queries, top_n) ==
    LET total_queries == Len(queries)
        keys == Distinct(queries)
        items == [k \in 1..Len(keys) |->
                    [category_name |-> keys[k],
                     query_count |-> CountOf(queries, keys[k]),
                     percentage_of_total |->
                         Percentage(CountOf(queries, keys[k]), total_queries),
                     sample_queries |-> <<keys[k]>>,
                     representative_query |-> keys[k],
                     cluster_indices |-> {i \in 1..Len(queries) : queries[i] = keys[k]}]]
    IN  IF top_n <= 0 THEN <<>> ELSE SliceTo(SortedDesc(items), top_n)

\* ------------------------------------------------------ analyze_trending
model_name == "text-multilingual-embedding-002"

NoEncode(ch) == EncodeResult("ok", <<>>, ch, 0, 0, 0, FALSE)

Response(method, categories, queries) ==
    [method |-> method,
     trending_categories |-> categories,
     analysis_stats |-> [total_queries |-> Len(queries),
                         unique_queries |-> Cardinality(Range(queries)),
                         clusters_created |-> Len(categories),
                         model_name |-> model_name,
                         data_source |-> "user_searches"]]

empty_response == Response("no_data", <<>>, <<>>)

\* variant: the try block without "except Exception"
AnalyzeEncodedNoHandler(queries, top_n, enc) ==
    IF enc.status = "raise"
    THEN [outcome |-> "raised", response |-> empty_response,
          enc |-> enc, failure |-> TRUE]
    ELSE IF ArraySize(enc.embeddings) > 0
    THEN [outcome |-> "returned",
          response |-> Response("vertex_ai_embeddings",
                                semantic_clustering(queries, enc.embeddings, top_n),
                                queries),
          enc |-> enc, failure |-> FALSE]
    ELSE [outcome |-> "returned",
          response |-> Response("frequency_fallback",
                                frequency_clustering(queries, top_n), queries),
          enc |-> enc, failure |-> enc.provider_failed]

\* the try block of analyze_trending and its handler, given what
\* encode_queries did
AnalyzeEncoded(queries, top_n, enc) ==
    IF enc.status = "raise"
    THEN [outcome |-> "returned",
          response |-> Response("frequency_fallback",
                                frequency_clustering(queries, top_n), queries),
          enc |-> enc, failure |-> TRUE]
    ELSE IF ArraySize(enc.embeddings) > 0
    THEN [outcome |-> "returned",
          response |-> Response("vertex_ai_embeddings",
                                semantic_clustering(queries, enc.embeddings, top_n),
                                queries),
          enc |-> enc, failure |-> FALSE]
    ELSE [outcome |-> "returned",
          response |-> Response("frequency_fallback",
                                frequency_clustering(queries, top_n), queries),
          enc |-> enc, failure |-> enc.provider_failed]

\* variant: without the "if not query_data" return
AnalyzeTrendingNoEmptyCase(query_data, top_n, ch, cacheUp, failAt) ==
    AnalyzeEncoded(QueriesOf(query_data), top_n,
                   encode_queries(query_data, ch, cacheUp, failAt))

\* outcome "raised": an exception reaches the caller.  failure: something
\* raised or the provider failed during the call.
analyze_trending(query_data, top_n, ch, cacheUp, failAt) ==
    IF query_data = <<>>
    THEN [outcome |-> "returned", response |-> empty_response,
          enc |-> NoEncode(ch), failure |-> FALSE]
    ELSE AnalyzeEncoded(QueriesOf(query_data), top_n,
                        encode_queries(query_data, ch, cacheUp, failAt))

\* -------------------------------------------------- find_similar_queries
Reverse(s) == [i \in 1..Len(s) |-> s[Len(s) + 1 - i]]

\* np.argsort(similarities): any ascending order of the indices; the order
\* of equal scores is not specified by the default sort
RECURSIVE AscendingOrders(_, _)
AscendingOrders(similarities, remaining) ==
    IF remaining = {} THEN {<<>>}
    ELSE UNION {{<<i>> \o rest :
                    rest \in AscendingOrders(similarities, remaining \ {i})} :
                i \in {m \in remaining :
                          \A o \in remaining : SimLeq(similarities[m], similarities[o])}}

ArgSorts(similarities) == AscendingOrders(similarities, 1..Len(similarities))

\* variant: the comprehension without "if similarities[idx] >= 0.1"
RankedResultsUnfiltered(similar_indices, similarities, original_queries) ==
    [i \in 1..Len(similar_indices) |->
        [query |-> original_queries[similar_indices[i]],
         similarity_score |-> similarities[similar_indices[i]],
         rank |-> i,
         index |-> similar_indices[i]]]

\* variant: "rank": idx + 1, the candidate's position in the input
RankedResultsRankOfIndex(similar_indices, similarities, original_queries) ==
    LET all == [i \in 1..Len(similar_indices) |->
                   [query |-> original_queries[similar_indices[i]],
                    similarity_score |-> similarities[similar_indices[i]],
                    rank |-> similar_indices[i],
                    index |-> similar_indices[i]]]
    IN  SelectSeq(all, LAMBDA r : SimAtLeast(r.similarity_score,
                                             min_similarity_score.p,
                                             min_similarity_score.q))

\* the list comprehension of lines 157-165 over similar_indices
RankedResults(similar_indices, similarities, original_queries) ==
    LET all == [i \in 1..Len(similar_indices) |->
                   [query |-> original_queries[similar_indices[i]],
                    similarity_score |-> similarities[similar_indices[i]],
                    rank |-> i,
                    index |-> similar_indices[i]]]
    IN  SelectSeq(all, LAMBDA r : SimAtLeast(r.similarity_score,
                                             min_similarity_score.p,
                                             min_similarity_score.q))

\* variant: np.argsort(similarities)[:top_k], the [::-1] left out
SimilarIndicesAscending(similarities, top_k) ==
    {SliceTo(p, top_k) : p \in ArgSorts(similarities)}

SimilarIndicesOf(similarities, top_k) ==
    {SliceTo(Reverse(p), top_k) : p \in ArgSorts(similarities)}

FindResult(outcome, results, similarities, enc, failure) ==
    [outcome |-> outcome, results |-> results, similarities |-> similarities,
     enc |-> enc, failure |-> failure]

\* variant: the try block without "except Exception"
FindEncodedNoHandler(original_queries, top_k, enc) ==
    IF enc.status = "raise"
    THEN {FindResult("raised", <<>>, <<>>, enc, TRUE)}
    ELSE IF ArraySize(enc.embeddings) = 0
    THEN {FindResult("returned", <<>>, <<>>, enc, enc.provider_failed)}
    ELSE
    LET target_embedding == enc.embeddings[1]
        other_embeddings == Tail(enc.embeddings)
        similarities ==
            [i \in 1..Len(other_embeddings) |->
                cosine_similarity(target_embedding, other_embeddings[i])]
    IN  {FindResult("returned",
                    RankedResults(similar_indices, similarities, original_queries),
                    similarities, enc, FALSE) :
            similar_indices \in SimilarIndicesOf(similarities, top_k)}

\* the try block of find_similar_queries and its handler, given what
\* encode_queries did: the set of results the call can produce (one per
\* order of equal scores)
FindEncoded(original_queries, top_k, enc) ==
    IF enc.status = "raise"
    THEN {FindResult("returned", <<>>, <<>>, enc, TRUE)}
    ELSE IF ArraySize(enc.embeddings) = 0
    THEN {FindResult("returned", <<>>, <<>>, enc, enc.provider_failed)}
    ELSE
    LET target_embedding == enc.embeddings[1]
        other_embeddings == Tail(enc.embeddings)
        similarities ==
            [i \in 1..Len(other_embeddings) |->
                cosine_similarity(target_embedding, other_embeddings[i])]
    IN  {FindResult("returned",
                    RankedResults(similar_indices, similarities, original_queries),
                    similarities, enc, FALSE) :
            similar_indices \in SimilarIndicesOf(similarities, top_k)}

find_similar_queries(query_data, target_query, top_k, ch, cacheUp, failAt) ==
    IF query_data = <<>> \/ target_query = <<>>
    THEN {FindResult("returned", <<>>, <<>>, NoEncode(ch), FALSE)}
    ELSE FindEncoded(QueriesOf(query_data), top_k,
                     encode_queries(<<<<target_query, None>>>> \o query_data,
                                    ch, cacheUp, failAt))

\* ------------------------------------ SimilarQueriesRequestSerializer
max_length_query == 500
max_length_queries == 1000
max_value_top_k == 100

RECURSIVE LStrip(_)
LStrip(str) ==
    IF str # <<>> /\ str[1] = " " THEN LStrip(Tail(str)) ELSE str

RECURSIVE RStrip(_)
RStrip(str) ==
    IF str # <<>> /\ str[Len(str)] = " "
    THEN RStrip(SubSeq(str, 1, Len(str) - 1)) ELSE str

Strip(str) == RStrip(LStrip(str))

\* CharField(max_length=500, min_length=1): trims, rejects blank
CharFieldValid(str) ==
    /\ Strip(str) # <<>>
    /\ Len(Strip(str)) >= 1
    /\ Len(Strip(str)) <= max_length_query

FieldsValid(queries, target_query, top_k) ==
    /\ Len(queries) >= 1
    /\ Len(queries) <= max_length_queries
    /\ \A i \in 1..Len(queries) : CharFieldValid(queries[i])
    /\ CharFieldValid(target_query)
    /\ top_k >= 1
    /\ top_k <= max_value_top_k

\* validate(): the cleaned attributes, or "invalid"
SerializerValidate(queries, target_query, top_k) ==
    LET cleaned_queries ==
            SelectSeq([i \in 1..Len(queries) |-> Strip(Strip(queries[i]))],
                      LAMBDA q : q # <<>>)
        cleaned_target == Strip(Strip(target_query))
    IN  IF cleaned_queries = <<>> \/ cleaned_target = <<>>
        THEN [valid |-> FALSE, queries |-> <<>>, target_query |-> <<>>, top_k |-> top_k]
        ELSE [valid |-> TRUE, queries |-> cleaned_queries,
              target_query |-> cleaned_target, top_k |-> top_k]

\* variant: the view going on whatever is_valid() says
IsValidUnchecked(queries, target_query, top_k) ==
    [valid |-> TRUE,
     queries |-> SelectSeq([i \in 1..Len(queries) |-> Strip(queries[i])],
                           LAMBDA q : q # <<>>),
     target_query |-> Strip(target_query),
     top_k |-> top_k]

is_valid(queries, target_query, top_k) ==
    IF FieldsValid(queries, target_query, top_k)
    THEN SerializerValidate(queries, target_query, top_k)
    ELSE [valid |-> FALSE, queries |-> <<>>, target_query |-> <<>>, top_k |-> top_k]

\* what can go wrong during one call: <<cacheUp, failAt>> with the cache
\* backend down, or the provider raising on one of the batches it is sent
Faults(query_data, ch) ==
    LET to_fetch == QueriesToFetch(query_data)
        uncached == UncachedQueries(to_fetch, ch)
    IN  {<<TRUE, 0>>}
        \cup (IF to_fetch = <<>> THEN {} ELSE {<<FALSE, 0>>})
        \cup {<<TRUE, k>> : k \in 1..NumBatches(uncached)}

\* a call that returns on its first line meets no fault
FindFaults(query_data, target_query, ch) ==
    IF query_data = <<>> \/ target_query = <<>> THEN {<<TRUE, 0>>}
    ELSE Faults(<<<<target_query, None>>>> \o query_data, ch)

\* the queries handed to get_embeddings during a call, the failing batch
\* included
SentToProvider(query_data, ch, cacheUp, failAt) ==
    LET uncached == UncachedQueries(QueriesToFetch(query_data), ch)
        sent == IF failAt = 0 THEN Len(uncached)
                ELSE Min(failAt * batch_size, Len(uncached))
    IN  IF cacheUp THEN {uncached[i] : i \in 1..sent} ELSE {}

\* what the provider may answer during one call, for the queries it is sent
ProviderAnswers(query_data, ch, cacheUp, failAt) ==
    LET sent == SentToProvider(query_data, ch, cacheUp, failAt)
    IN  {answers \in [Queries -> UNION {ProviderVectors(q) : q \in Queries}] :
            \A q \in Queries :
                answers[q] \in (IF q \in sent THEN ProviderVectors(q)
                                ELSE {TextEmbedding(q)})}

AsEntries(queries) == [i \in 1..Len(queries) |-> <<queries[i], None>>]

\* ----------------------------------------------------------- the state
VARIABLES
    cache,        \* django cache: the embedding stored for each query key, or None
    call,         \* the request being answered: its inputs, what it did, its result
    model_cache,  \* ModelCache._model: the loaded model, or None
    loads,        \* what the model constructor was asked and what callers got
    threads,      \* the threads inside ModelCache.get_model
    encoders,     \* the requests inside encode_queries at the same time
    writes,       \* the value of the last cache.set of each key, or None
    datasets,     \* the Dataset rows
    versions,     \* the DatasetVersion rows
    files,        \* the DatasetFile rows
    storage,      \* the upload_ids that have a blob in the bucket
    tasks,        \* the background tasks scheduled and not yet run
    search_queries, \* the SearchQuery rows written by the search endpoint
    http,         \* the datasets request being answered and its response
    updates       \* the version updates inside their transaction

dataset_vars ==
    <<datasets, versions, files, storage, tasks, search_queries, http, updates>>

vars ==
    <<cache, call, model_cache, loads, threads, encoders, writes, datasets,
      versions, files, storage, tasks, search_queries, http, updates>>

loader_vars == <<model_cache, loads, threads>>
encoder_vars == <<encoders, writes>>

\* threads calling get_model at the same time
NumThreads == 2
Threads == 1..NumThreads

\* requests encoding at the same time
Encoders == {"r1", "r2"}

\* inputs of the similar-queries request
RequestStrings == {<<>>, <<" ">>, <<" ", "a">>, <<"b">>}
RequestLists == SeqsUpTo(RequestStrings, MaxReqLen)

NoCall ==
    [op |-> "none", query_data |-> <<>>, n |-> 0, target_query |-> <<>>,
     outcome |-> "none", response |-> empty_response, results |-> <<>>,
     similarities |-> <<>>, remote_calls |-> 0, cache_gets |-> 0, cache_sets |-> 0,
     provider_failed |-> FALSE, encode_status |-> "ok", failure |-> FALSE,
     http_status |-> 0, analyzer_invoked |-> FALSE, request |-> <<>>,
     embeddings |-> <<>>, cache_before |-> [q \in Queries |-> None], sent |-> {},
     clusters |-> <<>>, categories |-> <<>>, category_name |-> <<>>,
     rows |-> <<>>,
     retry |-> FALSE, failed_cache |-> <<>>, failed_batch |-> 0,
     failed_embeddings |-> <<>>]

\* no datasets request in progress
NoRequest ==
    [op |-> "none", caller |-> "", id |-> "", status |-> 0, body |-> <<>>,
     returned |-> {}, created |-> "", versions_before |-> {},
     files_before |-> {}, storage_before |-> {}]

\* the update requests that can be in their transaction at the same time
Updaters == {"p1", "p2"}
IdleUpdate ==
    [pc |-> "idle", caller |-> "", id |-> "", current_version_number |-> 0,
     version_label |-> <<>>, plan |-> <<>>, status |-> 0, created |-> ""]

IdleThread == [pc |-> "idle", model_name |-> "", obj |-> None, result |-> None]

IdleEncoder ==
    [pc |-> "idle", query_data |-> <<>>,
     final_embeddings_map |-> [q \in Queries |-> None],
     queries_to_fetch |-> <<>>, uncached_queries |-> <<>>,
     new_embeddings |-> [q \in Queries |-> None],
     batch |-> <<>>, batch_embeddings |-> <<>>, i |-> 0,
     result |-> <<>>, provider_failed |-> FALSE]

Init ==
    /\ cache = [q \in Queries |-> None]
    /\ call = NoCall
    /\ model_cache = None
    /\ loads = [constructed |-> 0, failed |-> 0, returned |-> {}]
    /\ threads = [t \in Threads |-> IdleThread]
    /\ encoders = [e \in Encoders |-> IdleEncoder]
    /\ writes = [q \in Queries |-> None]
    /\ datasets = {}
    /\ versions = {}
    /\ files = {}
    /\ storage = {}
    /\ tasks = {}
    /\ search_queries = {}
    /\ http = NoRequest
    /\ updates = [u \in Updaters |-> IdleUpdate]

\* VertexAITrendingAnalyzer.analyze_trending(query_data, top_n)
AnalyzeTrending ==
    /\ call.op = "none"
    /\ UNCHANGED <<dataset_vars, loader_vars, encoder_vars>>
    /\ \E query_data \in Batches, top_n \in TopNs :
       \E fault \in Faults(query_data, cache) :
          \E r \in {analyze_trending(query_data, top_n, cache, fault[1], fault[2])} :
              /\ cache' = r.enc.cache
              /\ call' = [NoCall EXCEPT
                             !.op = "analyze_trending",
                             !.query_data = query_data,
                             !.n = top_n,
                             !.outcome = r.outcome,
                             !.response = r.response,
                             !.remote_calls = r.enc.remote_calls,
                             !.cache_gets = r.enc.cache_gets,
                             !.cache_sets = r.enc.cache_sets,
                             !.provider_failed = r.enc.provider_failed,
                             !.encode_status = r.enc.status,
                             !.failure = r.failure,
                             !.embeddings = r.enc.embeddings]

\* VertexAITrendingAnalyzer.find_similar_queries(query_data, target_query, top_k)
FindSimilarQueries ==
    /\ call.op = "none"
    /\ UNCHANGED <<dataset_vars, loader_vars, encoder_vars>>
    /\ \E query_data \in Candidates, target_query \in Queries \cup {<<>>},
          top_k \in TopKs :
       \E fault \in FindFaults(query_data, target_query, cache) :
          \E r \in find_similar_queries(query_data, target_query, top_k,
                                        cache, fault[1], fault[2]) :
              /\ cache' = r.enc.cache
              /\ call' = [NoCall EXCEPT
                             !.op = "find_similar_queries",
                             !.query_data = query_data,
                             !.n = top_k,
                             !.target_query = target_query,
                             !.outcome = r.outcome,
                             !.results = r.results,
                             !.similarities = r.similarities,
                             !.remote_calls = r.enc.remote_calls,
                             !.cache_gets = r.enc.cache_gets,
                             !.cache_sets = r.enc.cache_sets,
                             !.provider_failed = r.enc.provider_failed,
                             !.encode_status = r.enc.status,
                             !.failure = r.failure]

\* SimilarQueriesView.post: the candidates reach the analyzer as entries
\* without a stored embedding
SimilarQueriesViewPost ==
    /\ call.op = "none"
    /\ UNCHANGED <<dataset_vars, loader_vars, encoder_vars>>
    /\ \E queries \in RequestLists, target_query \in RequestStrings,
          top_k \in 0..MaxTopK :
          LET data == is_valid(queries, target_query, top_k)
              entries == AsEntries(data.queries)
          IN  IF ~data.valid
              THEN /\ cache' = cache
                   /\ call' = [NoCall EXCEPT
                                  !.op = "similar_queries_view",
                                  !.request = <<queries, target_query, top_k>>,
                                  !.outcome = "returned",
                                  !.http_status = 400]
              ELSE \E fault \in FindFaults(entries, data.target_query, cache) :
                   \E r \in find_similar_queries(entries, data.target_query, data.top_k,
                                                 cache, fault[1], fault[2]) :
                       /\ cache' = r.enc.cache
                       /\ call' = [NoCall EXCEPT
                                      !.op = "similar_queries_view",
                                      !.request = <<queries, target_query, top_k>>,
                                      !.query_data = entries,
                                      !.target_query = data.target_query,
                                      !.n = data.top_k,
                                      !.outcome = r.outcome,
                                      !.results = r.results,
                                      !.similarities = r.similarities,
                                      !.remote_calls = r.enc.remote_calls,
                                      !.cache_gets = r.enc.cache_gets,
                                      !.cache_sets = r.enc.cache_sets,
                                      !.provider_failed = r.enc.provider_failed,
                                      !.encode_status = r.enc.status,
                                      !.failure = r.failure,
                                      !.http_status =
                                          IF r.outcome = "raised" THEN 500 ELSE 200,
                                      !.analyzer_invoked = TRUE]

\* VertexAITrendingAnalyzer.encode_queries(query_data)
EncodeQueries ==
    /\ call.op = "none"
    /\ UNCHANGED <<dataset_vars, loader_vars, encoder_vars>>
    /\ \E query_data \in EncodeBatches :
       \E fault \in Faults(query_data, cache) :
       \E answers \in ProviderAnswers(query_data, cache, fault[1], fault[2]) :
          \E r \in {EncodeQueriesVia(answers, query_data, cache,
                                     fault[1], fault[2])} :
              /\ cache' = r.cache
              /\ call' = [NoCall EXCEPT
                             !.op = "encode_queries",
                             !.query_data = query_data,
                             !.outcome = IF r.status = "raise" THEN "raised"
                                         ELSE "returned",
                             !.embeddings = r.embeddings,
                             !.cache_before = cache,
                             !.sent = SentToProvider(query_data, cache,
                                                     fault[1], fault[2]),
                             !.remote_calls = r.remote_calls,
                             !.cache_gets = r.cache_gets,
                             !.cache_sets = r.cache_sets,
                             !.provider_failed = r.provider_failed,
                             !.encode_status = r.status,
                             !.failure = r.status = "raise" \/ r.provider_failed]

\* encode_queries(query_data) called again with the input of the call that
\* has just come back after the provider raised
RetryEncodeQueries ==
    /\ call.op = "encode_queries"
    /\ call.provider_failed
    /\ UNCHANGED <<dataset_vars, loader_vars, encoder_vars>>
    /\ \E fault \in Faults(call.query_data, cache) :
       \E answers \in ProviderAnswers(call.query_data, cache, fault[1], fault[2]) :
          \E r \in {EncodeQueriesVia(answers, call.query_data, cache,
                                     fault[1], fault[2])} :
              /\ cache' = r.cache
              /\ call' = [NoCall EXCEPT
                             !.op = "encode_queries",
                             !.query_data = call.query_data,
                             !.outcome = IF r.status = "raise" THEN "raised"
                                         ELSE "returned",
                             !.embeddings = r.embeddings,
                             !.cache_before = cache,
                             !.sent = SentToProvider(call.query_data, cache,
                                                     fault[1], fault[2]),
                             !.remote_calls = r.remote_calls,
                             !.cache_gets = r.cache_gets,
                             !.cache_sets = r.cache_sets,
                             !.provider_failed = r.provider_failed,
                             !.encode_status = r.status,
                             !.failure = r.status = "raise" \/ r.provider_failed,
                             !.retry = TRUE,
                             !.failed_cache = call.cache_before,
                             !.failed_batch = call.remote_calls,
                             !.failed_embeddings = call.embeddings]

\* the embeddings of a batch when cache and provider answer and hold nothing
\* else: the stored one, or the provider's
EmbeddingsOf(query_data) ==
    [i \in 1..Len(query_data) |->
        IF query_data[i][2] # None THEN query_data[i][2]
        ELSE TextEmbedding(query_data[i][1])]

\* VertexAITrendingAnalyzer._create_clusters(similarity_matrix)
CreateClusters ==
    /\ call.op = "none"
    /\ UNCHANGED <<dataset_vars, cache, loader_vars, encoder_vars>>
    /\ \E query_data \in ClusterBatches :
           call' = [NoCall EXCEPT
                       !.op = "create_clusters",
                       !.query_data = query_data,
                       !.outcome = "returned",
                       !.embeddings = EmbeddingsOf(query_data),
                       !.clusters = create_clusters(
                                        SimilarityMatrix(EmbeddingsOf(query_data)))]

\* VertexAITrendingAnalyzer._semantic_clustering(queries, embeddings, top_n)
SemanticClustering ==
    /\ call.op = "none"
    /\ UNCHANGED <<dataset_vars, cache, loader_vars, encoder_vars>>
    /\ \E query_data \in ClusterBatches \ {<<>>}, top_n \in TopNs :
           call' = [NoCall EXCEPT
                       !.op = "semantic_clustering",
                       !.query_data = query_data,
                       !.n = top_n,
                       !.outcome = "returned",
                       !.embeddings = EmbeddingsOf(query_data),
                       !.clusters = create_clusters(
                                        SimilarityMatrix(EmbeddingsOf(query_data))),
                       !.categories = semantic_clustering(QueriesOf(query_data),
                                                          EmbeddingsOf(query_data),
                                                          top_n)]

\* ------------------------------------------------- the query batch readers
\* "3 < len(cleaned) <= 200", the upper limit scaled from 200
min_cleaned_len == 3
max_cleaned_len == 5

\* the loop over the rows: lower(), strip(), the length test and the seen set
RECURSIVE CleanedFrom(_, _, _)
CleanedFrom(rows, seen, unique) ==
    IF rows = <<>> THEN unique
    ELSE LET cleaned == Strip(Lower(rows[1][1]))
         IN  IF /\ min_cleaned_len < Len(cleaned)
                /\ Len(cleaned) <= max_cleaned_len
                /\ cleaned \notin seen
             THEN CleanedFrom(Tail(rows), seen \cup {cleaned},
                              Append(unique, <<cleaned, rows[1][2]>>))
             ELSE CleanedFrom(Tail(rows), seen, unique)

\* variant: every row of a valid length kept, seen or not
GetRecentQueriesNoSeen(rows, db_fails) ==
    IF db_fails THEN <<>>
    ELSE LET kept == SelectSeq(rows, LAMBDA row :
                         /\ min_cleaned_len < Len(Strip(Lower(row[1])))
                         /\ Len(Strip(Lower(row[1]))) <= max_cleaned_len)
         IN  [k \in 1..Len(kept) |-> <<Strip(Lower(kept[k][1])), kept[k][2]>>]

\* SearchQueryManager.get_recent_queries on the rows the filter yields;
\* db_fails: the query raises and the handler returns []
get_recent_queries(rows, db_fails) ==
    IF db_fails THEN <<>> ELSE CleanedFrom(rows, {}, <<>>)

\* the second loop of TrendingAnalysisView._extract_dataset_queries, on the
\* strings collected from the datasets
extract_dataset_queries(queries, db_fails) ==
    IF db_fails THEN <<>>
    ELSE QueriesOf(CleanedFrom([k \in 1..Len(queries) |-> <<queries[k], None>>],
                               {}, <<>>))

\* raw strings of every length from the lower limit to one past the upper,
\* plain, and capitalised between spaces
Letters(n) == [i \in 1..n |-> "x"]
RawQueries ==
    UNION {{Letters(n), <<" ", "X">> \o Letters(n - 1) \o <<" ">>} :
              n \in min_cleaned_len..(max_cleaned_len + 1)}
RawRows == SeqsUpTo(RawQueries \X (StoredEmbeddings \cup {None}), MaxRows)
RawLists == SeqsUpTo(RawQueries, MaxRows)

\* SearchQuery.objects.get_recent_queries(days)
GetRecentQueries ==
    /\ call.op = "none"
    /\ UNCHANGED <<dataset_vars, cache, loader_vars, encoder_vars>>
    /\ \E rows \in RawRows, db_fails \in BOOLEAN :
           call' = [NoCall EXCEPT
                       !.op = "get_recent_queries",
                       !.rows = rows,
                       !.failure = db_fails,
                       !.outcome = "returned",
                       !.query_data = get_recent_queries(rows, db_fails)]

\* TrendingAnalysisView._extract_dataset_queries(days)
ExtractDatasetQueries ==
    /\ call.op = "none"
    /\ UNCHANGED <<dataset_vars, cache, loader_vars, encoder_vars>>
    /\ \E queries \in RawLists, db_fails \in BOOLEAN :
           call' = [NoCall EXCEPT
                       !.op = "extract_dataset_queries",
                       !.rows = [k \in 1..Len(queries) |-> <<queries[k], None>>],
                       !.failure = db_fails,
                       !.outcome = "returned",
                       !.query_data =
                           AsEntries(extract_dataset_queries(queries, db_fails))]

\* the pieces representative queries are made of: a stopword, the same
\* capitalised, a keyword, a short word, a word with a digit, and nothing
NameWords ==
    {<<"t", "o", "o">>, <<"T", "o", "o">>, <<"t", "o", "x">>, <<"o", "x">>,
     <<"x", "1", "x">>, <<>>}

NameQueries == {JoinWords(pieces) : pieces \in SeqsUpTo(NameWords, MaxNameWords)}

\* VertexAITrendingAnalyzer._extract_category_name(representative_query)
ExtractCategoryName ==
    /\ call.op = "none"
    /\ UNCHANGED <<dataset_vars, cache, loader_vars, encoder_vars>>
    /\ \E representative_query \in NameQueries :
           call' = [NoCall EXCEPT
                       !.op = "extract_category_name",
                       !.request = representative_query,
                       !.outcome = "returned",
                       !.category_name =
                           extract_category_name(representative_query)]

\* the caller takes the result; the next request starts from the cache alone
Return ==
    /\ call.op # "none"
    /\ call' = NoCall
    /\ UNCHANGED <<dataset_vars, cache, loader_vars, encoder_vars>>

\* trending analysis requests
Next ==
    \/ AnalyzeTrending
    \/ Return

Spec == Init /\ [][Next]_vars

\* similar-queries requests, at the analyzer and at the view
NextSimilar ==
    \/ FindSimilarQueries
    \/ SimilarQueriesViewPost
    \/ Return

SpecSimilar == Init /\ [][NextSimilar]_vars

\* encoding requests
NextEncode ==
    \/ EncodeQueries
    \/ RetryEncodeQueries
    \/ Return

SpecEncode == Init /\ [][NextEncode]_vars

\* the clustering functions on their own
NextClustering ==
    \/ CreateClusters
    \/ SemanticClustering
    \/ Return

SpecClustering == Init /\ [][NextClustering]_vars

\* category naming on its own
NextCategoryName ==
    \/ ExtractCategoryName
    \/ Return

SpecCategoryName == Init /\ [][NextCategoryName]_vars

\* the readers that make the batch
NextReaders ==
    \/ GetRecentQueries
    \/ ExtractDatasetQueries
    \/ Return

SpecReaders == Init /\ [][NextReaders]_vars

\* ------------------------------------------------- ModelCache.get_model
\* settings.TRENDING_MODEL_NAME, and one other model a caller may name
DefaultModelName == "all-MiniLM-L6-v2"
ModelNames == {DefaultModelName, "paraphrase-MiniLM-L3-v2"}

\* constructor failures met in one run
MaxLoadFailures == 1

\* SentenceTransformer(model_name): a new object on every invocation
NewModel(name) == <<loads.constructed + 1, name>>

\* a thread enters get_model; a missing model_name becomes the default
GetModel(t) ==
    /\ threads[t].pc = "idle"
    /\ \E name \in ModelNames :
           threads' = [threads EXCEPT ![t] =
                          [IdleThread EXCEPT !.pc = "check",
                                             !.model_name = name]]
    /\ UNCHANGED <<dataset_vars, cache, call, model_cache, loads, encoder_vars>>

\* "if self._model is None"
CheckModel(t) ==
    /\ threads[t].pc = "check"
    /\ threads' = [threads EXCEPT ![t].pc =
                      IF model_cache = None THEN "construct" ELSE "return"]
    /\ UNCHANGED <<dataset_vars, cache, call, model_cache, loads, encoder_vars>>

\* SentenceTransformer(model_name) answers or raises; get_model re-raises
ConstructModel(t) ==
    /\ threads[t].pc = "construct"
    /\ \/ /\ threads' = [threads EXCEPT ![t].pc = "assign",
                                        ![t].obj = NewModel(threads[t].model_name)]
          /\ loads' = [loads EXCEPT !.constructed = @ + 1]
       \/ /\ loads.failed < MaxLoadFailures
          /\ threads' = [threads EXCEPT ![t].pc = "raised"]
          /\ loads' = [loads EXCEPT !.constructed = @ + 1, !.failed = @ + 1]
    /\ UNCHANGED <<dataset_vars, cache, call, model_cache, encoder_vars>>

\* "self._model = ..."
AssignModel(t) ==
    /\ threads[t].pc = "assign"
    /\ model_cache' = threads[t].obj
    /\ threads' = [threads EXCEPT ![t].pc = "return"]
    /\ UNCHANGED <<dataset_vars, cache, call, loads, encoder_vars>>

\* "return self._model"
ReturnModel(t) ==
    /\ threads[t].pc = "return"
    /\ threads' = [threads EXCEPT ![t].pc = "done", ![t].result = model_cache]
    /\ loads' = [loads EXCEPT !.returned = @ \cup {model_cache}]
    /\ UNCHANGED <<dataset_vars, cache, call, model_cache, encoder_vars>>

\* the caller goes on with the model, or with the exception
LeaveGetModel(t) ==
    /\ threads[t].pc \in {"done", "raised"}
    /\ threads' = [threads EXCEPT ![t] = IdleThread]
    /\ UNCHANGED <<dataset_vars, cache, call, model_cache, loads, encoder_vars>>

NextModelCache ==
    \E t \in Threads :
        \/ GetModel(t)
        \/ CheckModel(t)
        \/ ConstructModel(t)
        \/ AssignModel(t)
        \/ ReturnModel(t)
        \/ LeaveGetModel(t)

SpecModelCache == Init /\ [][NextModelCache]_vars

\* ------------------------------------- encode_queries, call by call step
MaxConcurrentLen == 2

\* inputs of the requests that encode at the same time: entries without a
\* stored embedding, the ones that reach the cache and the provider
ConcurrentEntries == {QA, QB} \X {None}
ConcurrentBatches == SeqsUpTo(ConcurrentEntries, MaxConcurrentLen)

\* variant: cache.add, which keeps the value a key already has
CacheAdd(ch, q, embedding_values) ==
    IF ch[q] = None THEN [ch EXCEPT ![q] = embedding_values] ELSE ch

\* cache.set(cache_key, embedding_values, timeout=None)
CacheSet(ch, q, embedding_values) == [ch EXCEPT ![q] = embedding_values]

\* a request enters encode_queries and sorts its entries into stored ones
\* and ones to look up
StartEncode(r) ==
    /\ encoders[r].pc = "idle"
    /\ \E query_data \in ConcurrentBatches :
           encoders' = [encoders EXCEPT ![r] =
               IF query_data = <<>>
               THEN [IdleEncoder EXCEPT !.pc = "done"]
               ELSE [IdleEncoder EXCEPT
                        !.pc = IF QueriesToFetch(query_data) = <<>>
                               THEN "assemble" ELSE "lookup",
                        !.query_data = query_data,
                        !.final_embeddings_map = SuppliedMap(query_data),
                        !.queries_to_fetch = QueriesToFetch(query_data),
                        !.i = 1]]
    /\ UNCHANGED <<dataset_vars, cache, call, loader_vars, writes>>

\* one cache.get of the lookup loop
CacheGet(r) ==
    LET e == encoders[r]
        query == e.queries_to_fetch[e.i]
        embedding == cache[query]
        uncached == IF embedding = None THEN Append(e.uncached_queries, query)
                    ELSE e.uncached_queries
    IN  /\ e.pc = "lookup"
        /\ encoders' = [encoders EXCEPT ![r] =
               [e EXCEPT
                   !.final_embeddings_map =
                       IF embedding # None THEN [@ EXCEPT ![query] = embedding] ELSE @,
                   !.uncached_queries = uncached,
                   !.i = IF e.i < Len(e.queries_to_fetch) THEN e.i + 1 ELSE 1,
                   !.pc = IF e.i < Len(e.queries_to_fetch) THEN "lookup"
                          ELSE IF uncached # <<>> THEN "fetch" ELSE "assemble"]]
        /\ UNCHANGED <<dataset_vars, cache, call, loader_vars, writes>>

\* self.model.get_embeddings(batch) answers the batch that starts at i
GetEmbeddings(r) ==
    LET e == encoders[r]
        batch == SubSeq(e.uncached_queries, e.i,
                        Min(e.i + batch_size - 1, Len(e.uncached_queries)))
    IN  /\ e.pc = "fetch"
        /\ \E batch_embeddings \in
                 [1..Len(batch) -> UNION {ProviderVectors(q) : q \in Queries}] :
              /\ \A k \in 1..Len(batch) :
                     batch_embeddings[k] \in ProviderVectors(batch[k])
              /\ encoders' = [encoders EXCEPT ![r] =
                     [e EXCEPT !.batch = batch,
                               !.batch_embeddings = batch_embeddings,
                               !.pc = "store"]]
        /\ UNCHANGED <<dataset_vars, cache, call, loader_vars, writes>>

\* get_embeddings raises: "except Exception: return np.array([])"
ProviderRaises(r) ==
    /\ encoders[r].pc = "fetch"
    /\ encoders' = [encoders EXCEPT ![r].pc = "done",
                                    ![r].result = <<>>,
                                    ![r].provider_failed = TRUE]
    /\ UNCHANGED <<dataset_vars, cache, call, loader_vars, writes>>

\* one turn of the zip loop: new_embeddings[query] and cache.set
StoreEmbedding(r) ==
    LET e == encoders[r]
        query == Head(e.batch)
        embedding_values == Head(e.batch_embeddings)
        next == e.i + batch_size
    IN  /\ e.pc = "store"
        /\ cache' = CacheSet(cache, query, embedding_values)
        /\ writes' = [writes EXCEPT ![query] = embedding_values]
        /\ encoders' = [encoders EXCEPT ![r] =
               [e EXCEPT
                   !.new_embeddings = [@ EXCEPT ![query] = embedding_values],
                   !.batch = Tail(e.batch),
                   !.batch_embeddings = Tail(e.batch_embeddings),
                   !.i = IF Tail(e.batch) = <<>> THEN next ELSE e.i,
                   !.pc = IF Tail(e.batch) # <<>> THEN "store"
                          ELSE IF next <= Len(e.uncached_queries) THEN "fetch"
                          ELSE "assemble"]]
        /\ UNCHANGED <<dataset_vars, call, loader_vars>>

\* the last loop and np.array(final_embeddings_list)
AssembleEmbeddings(r) ==
    LET e == encoders[r]
        queries == QueriesOf(e.query_data)
        missing == \E k \in 1..Len(queries) :
                      /\ e.final_embeddings_map[queries[k]] = None
                      /\ e.new_embeddings[queries[k]] = None
        final_embeddings_list ==
            FinalEmbeddingsList(queries, e.final_embeddings_map, e.new_embeddings)
    IN  /\ e.pc = "assemble"
        /\ encoders' = [encoders EXCEPT ![r] =
               IF missing THEN [e EXCEPT !.pc = "done", !.result = <<>>]
               ELSE IF Ragged(final_embeddings_list) THEN [e EXCEPT !.pc = "raised"]
               ELSE [e EXCEPT !.pc = "done", !.result = final_embeddings_list]]
        /\ UNCHANGED <<dataset_vars, cache, call, loader_vars, writes>>

\* the caller takes the array, or the exception
LeaveEncode(r) ==
    /\ encoders[r].pc \in {"done", "raised"}
    /\ encoders' = [encoders EXCEPT ![r] = IdleEncoder]
    /\ UNCHANGED <<dataset_vars, cache, call, loader_vars, writes>>

NextConcurrentEncode ==
    \E r \in Encoders :
        \/ StartEncode(r)
        \/ CacheGet(r)
        \/ GetEmbeddings(r)
        \/ ProviderRaises(r)
        \/ StoreEmbedding(r)
        \/ AssembleEmbeddings(r)
        \/ LeaveEncode(r)

SpecConcurrentEncode == Init /\ [][NextConcurrentEncode]_vars

\* ================================================ the datasets application
\* the highest version number reached, the files and the ids in one request,
\* the tasks waiting for the worker
MaxVersionNumber == 2
MaxUploads == 2
MaxPendingTasks == 1

\* the primary keys (uuids) of each table
DatasetIds == <<"d1">>
VersionIds == <<"v1", "v2", "v3">>
FileIds == <<"f1", "f2", "f3">>

trend_vars == <<cache, call, model_cache, loads, threads, encoders, writes>>

\* authenticated members, and the caller without credentials
Users == {"u1", "u2"}
Anonymous == "anonymous"
Callers == Users \cup {Anonymous}

Titles == {<<"R", "i", "c", "e">>}
Licenses == {"mit"}
LicenseFilters == {{"mit"}, {"cc0"}}
FileTypeFilters == {{"csv"}, {}}
SearchTerms == {<<"r", "I">>, <<"o", "i", "l", " ">>}

\* the files a client can send: name, extension of the name, content
UploadedFiles ==
    {[name |-> "a.csv", ext |-> "csv", content |-> 1],
     [name |-> "b.json", ext |-> "json", content |-> 2]}
UploadLists == SeqsUpTo(UploadedFiles, MaxUploads)

\* hashlib.md5(file.read()).hexdigest(): one digest per content
md5(content) == <<"md5", content>>
Checksums == {md5(f.content) : f \in UploadedFiles}

\* the id of the blob that bucket.blob(file.name) names
BlobId(name) == <<"bucket", name>>

\* f"v{new_version_number}"
VersionLabel(version_number) == <<"v", version_number>>

DatasetVersionRow(id, dataset, version_number, owner) ==
    [id |-> id, dataset |-> dataset, version_number |-> version_number,
     version_label |-> VersionLabel(version_number), owner |-> owner]

\* the fields of a DatasetFile that come from the file itself
FileFields(upload_id, checksum, file_format) ==
    [upload_id |-> upload_id, checksum |-> checksum, file_format |-> file_format]

FieldsOfUpload(file) == FileFields(BlobId(file.name), md5(file.content), file.ext)
FieldsOfRow(df) == FileFields(df.upload_id, df.checksum, df.file_format)

DatasetFileRow(id, dataset_version, dataset, owner, fields) ==
    [id |-> id, dataset_version |-> dataset_version, dataset |-> dataset,
     owner |-> owner, upload_id |-> fields.upload_id,
     checksum |-> fields.checksum, file_format |-> fields.file_format]

\* the primary keys not in use: neither on a row nor named by a waiting task
Unused(ids, rows, task) ==
    SelectSeq(ids, LAMBDA id : /\ \A row \in rows : row.id # id
                               /\ \A t \in tasks : t.task = task => t.id # id)
UnusedDatasetIds == Unused(DatasetIds, datasets, "delete_dataset_task")
UnusedVersionIds == Unused(VersionIds, versions, "delete_version_task")
UnusedFileIds == Unused(FileIds, files, "delete_file_task")

\* the rows that objects.create / bulk_create make of a list of file fields
NewFileRows(fields, dataset_version, dataset, owner) ==
    {DatasetFileRow(UnusedFileIds[k], dataset_version, dataset, owner, fields[k]) :
        k \in 1..Len(fields)}

\* the rows with some of the primary keys, in the order of the keys
RowsWithIds(rows, ids) ==
    LET kept == SelectSeq(FileIds, LAMBDA id : id \in ids /\ \E row \in rows : row.id = id)
    IN  [k \in 1..Len(kept) |-> CHOOSE row \in rows : row.id = kept[k]]

\* UploadDatasetView.create, for a member: the dataset, its version "v1"
\* numbered 1, and one file row and one blob per uploaded file
UploadDataset ==
    /\ http.op = "none"
    /\ UNCHANGED <<trend_vars, tasks, search_queries, updates>>
    /\ \E owner \in Users, title \in Titles, license \in Licenses,
          is_public \in BOOLEAN, uploaded \in UploadLists :
          IF uploaded = <<>>
          THEN /\ http' = [NoRequest EXCEPT !.op = "upload_dataset",
                                            !.caller = owner, !.status = 400]
               /\ UNCHANGED <<datasets, versions, files, storage>>
          ELSE /\ UnusedDatasetIds # <<>>
               /\ UnusedVersionIds # <<>>
               /\ Len(UnusedFileIds) >= Len(uploaded)
               /\ datasets' = datasets \cup
                      {[id |-> UnusedDatasetIds[1], owner |-> owner,
                        is_public |-> is_public, title |-> title,
                        description |-> <<>>, license |-> license]}
               /\ versions' = versions \cup
                      {DatasetVersionRow(UnusedVersionIds[1],
                                         UnusedDatasetIds[1], 1, owner)}
               /\ files' = files \cup
                      NewFileRows([k \in 1..Len(uploaded) |->
                                      FieldsOfUpload(uploaded[k])],
                                  UnusedVersionIds[1], UnusedDatasetIds[1], owner)
               /\ storage' = storage \cup
                      {BlobId(uploaded[k].name) : k \in 1..Len(uploaded)}
               /\ http' = [NoRequest EXCEPT
                              !.op = "upload_dataset", !.caller = owner,
                              !.id = UnusedDatasetIds[1], !.status = 201,
                              !.created = UnusedVersionIds[1],
                              !.versions_before = versions,
                              !.files_before = files,
                              !.storage_before = storage]

\* ------------------------------------------------------ search, retrieve
Contains(s, t) ==
    \E i \in 0..(Len(s) - Len(t)) : SubSeq(s, i + 1, i + Len(t)) = t

\* field__icontains=term
icontains(field, term) == Contains(Lower(field), Lower(term))

\* a filter the request carries or not
Absent == [present |-> FALSE, value |-> {}]
Supplied(value) == [present |-> TRUE, value |-> value]

SearchFilters ==
    [search : {Absent} \cup {Supplied(t) : t \in SearchTerms},
     file_types : {Absent} \cup {Supplied(x) : x \in FileTypeFilters},
     licenses : {Absent} \cup {Supplied(x) : x \in LicenseFilters}]

\* variant: Q(is_public=True) | Q(owner__isnull=False) for a caller logged in
BaseQueryAnyOwner(dataset, caller) ==
    dataset.is_public \/ caller # Anonymous

\* Q(is_public=True), "| Q(owner=request.user)" when the caller is logged in
base_query(dataset, caller) ==
    dataset.is_public \/ (caller # Anonymous /\ dataset.owner = caller)

\* Q() and the conditions of the filters the request carries
secondary_query(dataset, filters, file_rows) ==
    /\ filters.search.present =>
           \/ icontains(dataset.title, filters.search.value)
           \/ icontains(dataset.description, filters.search.value)
    /\ filters.file_types.present =>
           \E df \in file_rows : /\ df.dataset = dataset.id
                                 /\ df.file_format \in filters.file_types.value
    /\ filters.licenses.present => dataset.license \in filters.licenses.value

\* Dataset.objects.filter(base_query & secondary_query)
dataset_query(dataset_rows, file_rows, caller, filters) ==
    {dataset \in dataset_rows :
        /\ base_query(dataset, caller)
        /\ secondary_query(dataset, filters, file_rows)}

\* SearchDatasetView.post: the page of datasets, and the search text of a
\* logged-in caller written to the search log
SearchDataset ==
    /\ http.op = "none"
    /\ UNCHANGED <<trend_vars, datasets, versions, files, storage, tasks,
                   updates>>
    /\ \E caller \in Callers, filters \in SearchFilters :
          /\ IF caller # Anonymous /\ filters.search.present
             THEN search_queries' =
                      search_queries \cup
                          {<<caller, Strip(filters.search.value)>>}
             ELSE UNCHANGED search_queries
          /\ http' = [NoRequest EXCEPT
                         !.op = "search_dataset", !.caller = caller,
                         !.body = filters, !.status = 200,
                         !.returned = dataset_query(datasets, files, caller,
                                                    filters)]

\* RetrieveDatasetView: get_object on get_queryset
RetrieveDataset ==
    /\ http.op = "none"
    /\ UNCHANGED <<trend_vars, datasets, versions, files, storage, tasks,
                   search_queries, updates>>
    /\ \E caller \in Callers, id \in Range(DatasetIds) :
          LET queryset == {dataset \in datasets : base_query(dataset, caller)}
              found == {dataset \in queryset : dataset.id = id}
          IN  http' = [NoRequest EXCEPT
                          !.op = "retrieve_dataset", !.caller = caller,
                          !.id = id,
                          !.status = IF found = {} THEN 404 ELSE 200,
                          !.returned = found]

\* the response has been sent
DatasetReturn ==
    /\ http.op # "none"
    /\ http' = NoRequest
    /\ UNCHANGED <<trend_vars, datasets, versions, files, storage, tasks,
                   search_queries, updates>>

\* ------------------------------------------------------- version update
RetainLists == SeqsUpTo(Range(FileIds), MaxUploads)

RowWithId(rows, id) == CHOOSE row \in rows : row.id = id

\* .first() of the current version's files with a checksum, per checksum:
\* any of them (primary keys are random uuids), 0 when there is none
FirstByChecksum(previous) ==
    {first \in [Checksums -> {""} \cup {df.id : df \in previous}] :
        \A c \in Checksums :
            LET same == {df.id : df \in {x \in previous : x.checksum = c}}
            IN  IF same = {} THEN first[c] = "" ELSE first[c] \in same}

\* variant: any existing version of the dataset may be updated
IsLatestOrOlder(current_version, latest_version_number) == TRUE

\* "current_version.version_number != latest_version.version_number" raises
IsLatest(current_version, latest_version_number) ==
    current_version.version_number = latest_version_number

\* the loop over request.FILES: copied is what it appends to dataset_files,
\* new what it appends to new_dataset_files
RECURSIVE UploadedFrom(_, _, _, _, _)
UploadedFrom(uploaded, previous, retained_file_ids, first, lists) ==
    IF uploaded = <<>> THEN lists
    ELSE LET md5_hex == md5(Head(uploaded).content)
             existing_dataset_file == first[md5_hex]
         IN  IF existing_dataset_file # ""
             THEN IF existing_dataset_file \notin retained_file_ids
                  THEN UploadedFrom(Tail(uploaded), previous, retained_file_ids,
                           first,
                           [lists EXCEPT !.copied =
                               Append(@, FieldsOfRow(RowWithId(previous,
                                                 existing_dataset_file)))])
                  ELSE UploadedFrom(Tail(uploaded), previous, retained_file_ids,
                                    first, lists)
             ELSE UploadedFrom(Tail(uploaded), previous, retained_file_ids,
                      first,
                      [lists EXCEPT !.new =
                          Append(@, FieldsOfUpload(Head(uploaded)))])

\* variant: DatasetVersion without unique_together
UniqueTogetherUnchecked(version_rows, dataset, version_label) == FALSE

\* unique_together = ("version_label", "dataset"): a row with the label is
\* there for the dataset already
unique_together(version_rows, dataset, version_label) ==
    \E v \in version_rows : v.dataset = dataset /\ v.version_label = version_label

\* the answer of a request stopped before the "same state" test
Refused(status) ==
    [status |-> status, version_number |-> 0, compared |-> FALSE,
     dataset_files |-> <<>>, storage |-> storage]

\* the files of the version of a dataset that has a number
PreviousFiles(id, current_version_number) ==
    {df \in files :
        \E v \in versions : /\ v.dataset = id
                            /\ v.version_number = current_version_number
                            /\ df.dataset_version = v.id}

\* UpdateDatasetVersion.update on the rows as they are: the status, the
\* number of the new version, the fields of the files it holds or would
\* have held, and the bucket
VersionUpdate(caller, id, current_version_number, retain_ids, uploaded, first) ==
    LET current == {v \in versions : /\ v.dataset = id
                                     /\ v.version_number = current_version_number}
        numbers == {v.version_number : v \in {x \in versions : x.dataset = id}}
    IN  IF retain_ids = <<>> /\ uploaded = <<>> THEN Refused(400)
        ELSE IF ~\E d \in datasets : d.id = id /\ d.owner = caller
        THEN Refused(400)
        ELSE IF current = {} THEN Refused(400)
        ELSE IF Cardinality(current) > 1 THEN Refused(500)
        ELSE
        LET current_version == CHOOSE v \in current : TRUE
            latest_version_number == CHOOSE n \in numbers : \A m \in numbers : m <= n
            previous == {df \in files : df.dataset_version = current_version.id}
            retained == {df \in previous : df.id \in Range(retain_ids)}
            retained_file_ids == {df.id : df \in retained}
            new_version_number == current_version.version_number + 1
            lists == UploadedFrom(uploaded, previous, retained_file_ids, first,
                                  [copied |-> <<>>, new |-> <<>>])
            kept == RowsWithIds(previous, retained_file_ids)
            dataset_files ==
                [k \in 1..Len(kept) |-> FieldsOfRow(kept[k])] \o lists.copied
        IN  IF ~IsLatest(current_version, latest_version_number)
            THEN Refused(400)
            ELSE IF Cardinality(retained) # Len(retain_ids)
            THEN Refused(400)
            ELSE IF unique_together(versions, id, VersionLabel(new_version_number))
            THEN Refused(500)
            ELSE [status |-> IF /\ lists.new = <<>>
                                /\ Len(dataset_files) = Cardinality(previous)
                             THEN 400 ELSE 201,
                  version_number |-> new_version_number,
                  compared |-> TRUE,
                  dataset_files |-> dataset_files \o lists.new,
                  storage |-> storage \cup
                      {lists.new[k].upload_id : k \in 1..Len(lists.new)}]

\* UpdateDatasetVersion.update for a logged-in caller
UpdateDatasetVersion ==
    /\ http.op = "none"
    /\ UNCHANGED <<trend_vars, datasets, tasks, search_queries, updates>>
    /\ \E caller \in Users, id \in Range(DatasetIds),
          current_version_number \in 1..MaxVersionNumber,
          retain_ids \in RetainLists, uploaded \in UploadLists :
       \E first \in FirstByChecksum(PreviousFiles(id, current_version_number)) :
       \E r \in {VersionUpdate(caller, id, current_version_number, retain_ids,
                               uploaded, first)} :
          /\ r.status = 201 =>
                 /\ r.version_number <= MaxVersionNumber
                 /\ UnusedVersionIds # <<>>
                 /\ Len(UnusedFileIds) >= Len(r.dataset_files)
          /\ IF r.status = 201
             THEN /\ versions' = versions \cup
                         {DatasetVersionRow(UnusedVersionIds[1], id,
                                            r.version_number, caller)}
                  /\ files' = files \cup
                         NewFileRows(r.dataset_files, UnusedVersionIds[1], id,
                                     caller)
             ELSE UNCHANGED <<versions, files>>
          /\ storage' = r.storage
          /\ http' = [NoRequest EXCEPT
                         !.op = "update_dataset_version", !.caller = caller,
                         !.id = id, !.status = r.status,
                         !.body = [current_version_number |-> current_version_number,
                                   compared |-> r.compared,
                                   dataset_files |-> r.dataset_files],
                         !.created = IF r.status = 201 THEN UnusedVersionIds[1]
                                     ELSE "",
                         !.versions_before = versions,
                         !.files_before = files,
                         !.storage_before = storage]

\* --------------------------------------------------------------- deletion
Task(name, id) == [task |-> name, id |-> id]

\* a delete view: 400 unless a row with the id is owned by the caller, else
\* the task is scheduled and the answer is 202
DeleteRequest(op, task, rows, caller, id) ==
    IF \E row \in rows : row.id = id /\ row.owner = caller
    THEN /\ Cardinality(tasks) < MaxPendingTasks
         /\ tasks' = tasks \cup {Task(task, id)}
         /\ http' = [NoRequest EXCEPT !.op = op, !.caller = caller,
                                      !.id = id, !.status = 202]
    ELSE /\ UNCHANGED tasks
         /\ http' = [NoRequest EXCEPT !.op = op, !.caller = caller,
                                      !.id = id, !.status = 400]

\* DeleteDatasetView.destroy
DeleteDataset ==
    /\ http.op = "none"
    /\ UNCHANGED <<trend_vars, datasets, versions, files, storage,
                   search_queries, updates>>
    /\ \E caller \in Users, id \in Range(DatasetIds) :
          DeleteRequest("delete_dataset", "delete_dataset_task", datasets,
                        caller, id)

\* DeleteDatasetVersionView.destroy
DeleteDatasetVersion ==
    /\ http.op = "none"
    /\ UNCHANGED <<trend_vars, datasets, versions, files, storage,
                   search_queries, updates>>
    /\ \E caller \in Users, id \in Range(VersionIds) :
          DeleteRequest("delete_dataset_version", "delete_version_task",
                        versions, caller, id)

\* DeleteDatasetFileView.destroy
DeleteDatasetFile ==
    /\ http.op = "none"
    /\ UNCHANGED <<trend_vars, datasets, versions, files, storage,
                   search_queries, updates>>
    /\ \E caller \in Users, id \in Range(FileIds) :
          DeleteRequest("delete_dataset_file", "delete_file_task", files,
                        caller, id)

\* delete_blob for the upload_ids of some rows: every blob.delete() works,
\* or raises and False is returned
delete_blob(upload_ids, bucket, deleted) ==
    IF deleted THEN bucket \ upload_ids ELSE bucket

\* a scheduled task run by the worker: the blobs of the file rows it finds,
\* then the rows, with the rows that cascade
RunTask(t, doomed_datasets, doomed_versions, doomed_files, deleted) ==
    /\ tasks' = tasks \ {t}
    /\ storage' = delete_blob({df.upload_id : df \in doomed_files}, storage,
                              deleted)
    /\ datasets' = datasets \ doomed_datasets
    /\ versions' = versions \ doomed_versions
    /\ files' = files \ doomed_files

\* delete_dataset_task(dataset_id)
DeleteDatasetTask ==
    /\ http.op = "none"
    /\ UNCHANGED <<trend_vars, search_queries, http, updates>>
    /\ \E t \in tasks, deleted \in BOOLEAN :
          /\ t.task = "delete_dataset_task"
          /\ RunTask(t, {d \in datasets : d.id = t.id},
                     {v \in versions : v.dataset = t.id},
                     {df \in files : df.dataset = t.id}, deleted)

\* delete_version_task(version_id)
DeleteVersionTask ==
    /\ http.op = "none"
    /\ UNCHANGED <<trend_vars, search_queries, http, updates>>
    /\ \E t \in tasks, deleted \in BOOLEAN :
          /\ t.task = "delete_version_task"
          /\ RunTask(t, {}, {v \in versions : v.id = t.id},
                     {df \in files : df.dataset_version = t.id}, deleted)

\* delete_file_task(file_id)
DeleteFileTask ==
    /\ http.op = "none"
    /\ UNCHANGED <<trend_vars, search_queries, http, updates>>
    /\ \E t \in tasks, deleted \in BOOLEAN :
          /\ t.task = "delete_file_task"
          /\ RunTask(t, {}, {}, {df \in files : df.id = t.id}, deleted)

\* the endpoints that read datasets
NextDatasetSearch ==
    \/ UploadDataset
    \/ SearchDataset
    \/ RetrieveDataset
    \/ DatasetReturn

SpecDatasetSearch == Init /\ [][NextDatasetSearch]_vars

\* ---------------------------------- version updates at the same time
\* the version rows inserted by the other transactions and not yet committed
\* or rolled back
PendingVersions(p) ==
    {[dataset |-> updates[q].id, version_label |-> updates[q].version_label] :
        q \in {x \in Updaters \ {p} : updates[x].pc = "files"}}

\* update(): serializer, the dataset of the caller, and inside the
\* transaction the tests up to the ids to retain; the files for the new
\* version are worked out from what the transaction reads here
BeginUpdate(p) ==
    /\ updates[p].pc = "idle"
    /\ UNCHANGED <<trend_vars, datasets, versions, files, storage, tasks,
                   search_queries, http>>
    /\ \E caller \in Users, id \in Range(DatasetIds),
          current_version_number \in 1..MaxVersionNumber,
          uploaded \in UploadLists :
       \E first \in FirstByChecksum(PreviousFiles(id, current_version_number)) :
       \E r \in {VersionUpdate(caller, id, current_version_number, <<>>,
                               uploaded, first)} :
          /\ r.compared => r.version_number <= MaxVersionNumber
          /\ updates' = [updates EXCEPT ![p] =
                 [IdleUpdate EXCEPT
                     !.pc = IF r.compared THEN "create" ELSE "done",
                     !.caller = caller, !.id = id,
                     !.current_version_number = current_version_number,
                     !.version_label = VersionLabel(r.version_number),
                     !.plan = r,
                     !.status = IF r.compared THEN 0 ELSE r.status]]

\* DatasetVersion.objects.create(...): IntegrityError when the label is
\* taken by a committed row; the insert waits while the label is held by a
\* row another transaction has not committed yet
CreateVersion(p) ==
    /\ updates[p].pc = "create"
    /\ UNCHANGED <<trend_vars, datasets, versions, files, storage, tasks,
                   search_queries, http>>
    /\ ~unique_together(PendingVersions(p), updates[p].id,
                        updates[p].version_label)
    /\ IF unique_together(versions, updates[p].id, updates[p].version_label)
       THEN updates' = [updates EXCEPT ![p].pc = "done", ![p].status = 500]
       ELSE updates' = [updates EXCEPT ![p].pc = "files"]

\* the rest of the transaction: the "same state" test raises and the new
\* version row is rolled back, or the files are created and all is committed
CommitUpdate(p) ==
    /\ updates[p].pc = "files"
    /\ UNCHANGED <<trend_vars, datasets, tasks, search_queries, http>>
    /\ IF updates[p].plan.status = 201
       THEN /\ UnusedVersionIds # <<>>
            /\ Len(UnusedFileIds) >= Len(updates[p].plan.dataset_files)
            /\ versions' = versions \cup
                   {DatasetVersionRow(UnusedVersionIds[1], updates[p].id,
                                      updates[p].plan.version_number,
                                      updates[p].caller)}
            /\ files' = files \cup
                   NewFileRows(updates[p].plan.dataset_files,
                               UnusedVersionIds[1], updates[p].id,
                               updates[p].caller)
            /\ storage' = storage \cup
                   {updates[p].plan.dataset_files[k].upload_id :
                       k \in 1..Len(updates[p].plan.dataset_files)}
            /\ updates' = [updates EXCEPT ![p].pc = "done", ![p].status = 201,
                                          ![p].created = UnusedVersionIds[1]]
       ELSE /\ UNCHANGED <<versions, files, storage>>
            /\ updates' = [updates EXCEPT ![p].pc = "done",
                                          ![p].status = updates[p].plan.status]

\* the response of the update has been sent
FinishUpdate(p) ==
    /\ updates[p].pc = "done"
    /\ updates' = [updates EXCEPT ![p] = IdleUpdate]
    /\ UNCHANGED <<trend_vars, datasets, versions, files, storage, tasks,
                   search_queries, http>>

NextConcurrentUpdate ==
    \/ UploadDataset
    \/ DatasetReturn
    \/ \E p \in Updaters : BeginUpdate(p)
    \/ \E p \in Updaters : CreateVersion(p)
    \/ \E p \in Updaters : CommitUpdate(p)
    \/ \E p \in Updaters : FinishUpdate(p)

SpecConcurrentUpdate == Init /\ [][NextConcurrentUpdate]_vars

\* upload and version update
NextVersions ==
    \/ UploadDataset
    \/ UpdateDatasetVersion
    \/ DatasetReturn

SpecVersions == Init /\ [][NextVersions]_vars

\* the endpoints that change versions and files, and the task worker
NextDatasets ==
    \/ UploadDataset
    \/ UpdateDatasetVersion
    \/ DeleteDataset
    \/ DeleteDatasetVersion
    \/ DeleteDatasetFile
    \/ DeleteDatasetTask
    \/ DeleteVersionTask
    \/ DeleteFileTask
    \/ DatasetReturn

SpecDatasets == Init /\ [][NextDatasets]_vars

TypeOK ==
    /\ \A q \in Queries : cache[q] \in {None} \cup ProviderVectors(q)
    /\ call.op \in {"none", "analyze_trending", "find_similar_queries",
                    "similar_queries_view", "encode_queries", "create_clusters",
                    "semantic_clustering", "extract_category_name",
                    "get_recent_queries", "extract_dataset_queries"}

\* ============================================================== claims
Categories == call.response.trending_categories
BatchQueries == QueriesOf(call.query_data)
IsAnalyze == call.op = "analyze_trending"
IsFind == call.op = "find_similar_queries"
IsView == call.op = "similar_queries_view"

PercentageSum ==
    SumSeq([k \in 1..Len(Categories) |-> Categories[k].percentage_of_total.num])

Covered == UNION {Categories[k].cluster_indices : k \in 1..Len(Categories)}

ScoreOk(score) ==
    SimAtLeast(score, min_similarity_score.p, min_similarity_score.q)

C2_IdenticalBatchIsSingleQuery ==
    (/\ IsAnalyze
     /\ call.query_data # <<>>
     /\ \A i \in 1..Len(BatchQueries) : BatchQueries[i] = BatchQueries[1])
    => /\ call.response.method = "single_query"
       /\ Len(Categories) = 1
       /\ Categories[1].query_count = Len(call.query_data)
       /\ Categories[1].percentage_of_total.num
              = 100 * Categories[1].percentage_of_total.den

C5_AnalyzeNeverRaises ==
    IsAnalyze =>
        /\ call.outcome = "returned"
        /\ (call.failure => call.response.method = "frequency_fallback")

\* the cache backend raised inside encode_queries
C5_Witness ==
    /\ IsAnalyze
    /\ call.encode_status = "raise"
    /\ call.response.method = "frequency_fallback"
    /\ Categories # <<>>

\* C6: find_similar_queries returns at most top_k results, in order of
\* non-increasing similarity_score.
C6_AtMostTopKDescending ==
    IsFind =>
        /\ Len(call.results) <= call.n
        /\ \A k \in 1..(Len(call.results) - 1) :
               SimLeq(call.results[k + 1].similarity_score,
                      call.results[k].similarity_score)

\* top_k results of strictly decreasing score, out of more candidates
C6_Witness ==
    /\ IsFind
    /\ Len(call.results) = call.n
    /\ Len(call.results) >= 2
    /\ Len(call.query_data) > call.n
    /\ ~SimLeq(call.results[1].similarity_score, call.results[2].similarity_score)

\* C7: every result scores at least 0.1, and every candidate that scores at
\* least 0.1 and has fewer than top_k other candidates scoring as high is
\* among the results.
C7_ScoreThreshold ==
    IsFind =>
        /\ \A k \in 1..Len(call.results) : ScoreOk(call.results[k].similarity_score)
        /\ \A i \in 1..Len(call.similarities) :
               (/\ ScoreOk(call.similarities[i])
                /\ Cardinality({j \in 1..Len(call.similarities) :
                                   /\ j # i
                                   /\ SimLeq(call.similarities[i], call.similarities[j])})
                       < call.n)
               => \E k \in 1..Len(call.results) : call.results[k].index = i

\* a candidate under 0.1 was among the top_k and left out, another returned
C7_Witness ==
    /\ IsFind
    /\ Len(call.results) >= 1
    /\ Len(call.results) < Min(call.n, Len(call.similarities))

\* C8: the ranks of the results are 1, 2, ..., n in order.
C8_RanksArePositions ==
    IsFind => \A k \in 1..Len(call.results) : call.results[k].rank = k

\* two ranked results while a third candidate scores under 0.1
C8_Witness ==
    /\ IsFind
    /\ Len(call.results) = 2
    /\ \E i \in 1..Len(call.similarities) : ~ScoreOk(call.similarities[i])

\* C9: find_similar_queries always returns; whenever something failed during
\* the call the result list is empty.
C9_FindNeverRaises ==
    IsFind =>
        /\ call.outcome = "returned"
        /\ (call.failure => call.results = <<>>)

\* the cache backend raised inside encode_queries
C9_Witness ==
    /\ IsFind
    /\ call.encode_status = "raise"
    /\ call.results = <<>>

\* C10: a request with no candidate, or with an empty or blank target, gets
\* 400 without the analyzer being invoked; and find_similar_queries given no
\* candidate or an empty target returns without a provider call or a cache
\* access.
C10_InvalidInputRejectedEarly ==
    /\ (/\ IsView
        /\ \/ call.request[1] = <<>>
           \/ Strip(call.request[2]) = <<>>)
       => /\ call.http_status = 400
          /\ ~call.analyzer_invoked
          /\ call.remote_calls = 0
          /\ call.cache_gets = 0
          /\ call.cache_sets = 0
    /\ (/\ IsFind
        /\ \/ call.query_data = <<>>
           \/ call.target_query = <<>>)
       => /\ call.results = <<>>
          /\ call.remote_calls = 0
          /\ call.cache_gets = 0
          /\ call.cache_sets = 0

\* a blank target with a valid candidate list is refused
C10_Witness ==
    /\ IsView
    /\ call.request[1] # <<>>
    /\ \A i \in 1..Len(call.request[1]) : Strip(call.request[1][i]) # <<>>
    /\ call.request[2] = <<" ">>
    /\ call.http_status = 400

IsEncode == call.op = "encode_queries"

\* the embeddings one call can rightly give for the query of entry i: one
\* stored with that query in the input, the one the cache held for it, or
\* one the provider answers for it
AssociatedEmbeddings(i) ==
    ({call.query_data[j][2] :
         j \in {j \in 1..Len(call.query_data) : BatchQueries[j] = BatchQueries[i]}}
     \cup {call.cache_before[BatchQueries[i]]}
     \cup ProviderVectors(BatchQueries[i])) \ {None}

\* C11: an encode_queries call that yields embeddings for n entries yields
\* exactly n of them, the i-th being an embedding of the i-th query (equal
\* queries get equal rows); an empty input returns an empty result, without
\* error and without touching cache or provider.
C11_OneEmbeddingPerEntryInOrder ==
    /\ (IsEncode /\ call.outcome = "returned" /\ call.embeddings # <<>>) =>
          /\ Len(call.embeddings) = Len(call.query_data)
          /\ \A i \in 1..Len(call.query_data) :
                 /\ i <= Len(call.embeddings)
                 /\ call.embeddings[i] \in AssociatedEmbeddings(i)
          /\ \A i, j \in 1..Len(call.query_data) :
                 BatchQueries[i] = BatchQueries[j]
                     => call.embeddings[i] = call.embeddings[j]
    /\ (IsEncode /\ call.query_data = <<>>) =>
          /\ call.outcome = "returned"
          /\ call.embeddings = <<>>
          /\ call.remote_calls = 0
          /\ call.cache_gets = 0

\* three entries encoded, one query twice with another query between, the
\* rows of the two queries differing
C11_Witness ==
    /\ IsEncode
    /\ Len(call.embeddings) = 3
    /\ BatchQueries[1] = BatchQueries[3]
    /\ BatchQueries[1] # BatchQueries[2]
    /\ call.embeddings[1] # call.embeddings[2]
    /\ call.sent # {}

\* a category built from a similarity cluster: every member meets the
\* threshold against the first member, and the samples are the first members
IsSemanticCategory(category) ==
    LET first == CHOOSE i \in category.cluster_indices :
                     \A j \in category.cluster_indices : i <= j
    IN  /\ category.cluster_indices \subseteq 1..Len(call.embeddings)
        /\ \A j \in category.cluster_indices :
               SimAtLeast(cosine_similarity(call.embeddings[first], call.embeddings[j]),
                          similarity_threshold.p, similarity_threshold.q)
        /\ category.query_count = Cardinality(category.cluster_indices)
        /\ Len(category.sample_queries) = Min(3, category.query_count)
        /\ \A k \in 1..Len(category.sample_queries) :
               \E j \in category.cluster_indices :
                   category.sample_queries[k] = BatchQueries[j]

\* a category of the frequency ranking: one query string with all of its
\* occurrences
IsFrequencyCategory(category) ==
    /\ category.sample_queries = <<category.representative_query>>
    /\ category.cluster_indices
           = {i \in 1..Len(BatchQueries) : BatchQueries[i] = category.representative_query}
    /\ category.query_count = Cardinality(category.cluster_indices)

\* C12: within analyze_trending, encode_queries yields one embedding per
\* entry or none at all, and the categories of one answer are all similarity
\* clusters when the method is the embedding method and all frequency counts
\* when it is "frequency_fallback".
C12_NoPartialResult ==
    (IsAnalyze /\ call.query_data # <<>>) =>
        /\ Len(call.embeddings) \in {0, Len(call.query_data)}
        /\ call.response.method \in {"vertex_ai_embeddings", "frequency_fallback"}
        /\ call.response.method = "vertex_ai_embeddings" =>
               /\ Len(call.embeddings) = Len(call.query_data)
               /\ \A k \in 1..Len(Categories) : IsSemanticCategory(Categories[k])
        /\ call.response.method = "frequency_fallback" =>
               /\ call.embeddings = <<>>
               /\ \A k \in 1..Len(Categories) : IsFrequencyCategory(Categories[k])

\* the provider raised after a first batch had been embedded and stored, and
\* the answer lists frequency categories only
C12_Witness ==
    /\ IsAnalyze
    /\ call.provider_failed
    /\ call.cache_sets > 0
    /\ call.embeddings = <<>>
    /\ Len(Categories) >= 1
    /\ \E k \in 1..Len(Categories) : Categories[k].query_count >= 2

\* C13: as long as the constructor has not raised, threads calling
\* get_model while no model is loaded make it run at most once, and every
\* caller is handed the same model object.
C13_ModelConstructedOnce ==
    loads.failed = 0 =>
        /\ loads.constructed <= 1
        /\ Cardinality(loads.returned) <= 1

\* both requests have returned from encode_queries, neither met a provider
\* error, and each had found query q missing from the cache
BothEncodedUncached(q) ==
    \A r \in Encoders :
        /\ encoders[r].pc = "done"
        /\ ~encoders[r].provider_failed
        /\ q \in Range(encoders[r].uncached_queries)

\* C14: when two encode_queries calls that both found the same query
\* uncached have returned, each has one embedding per entry, and the cache
\* holds for that query the value of the last cache.set, which is the
\* embedding one of the two calls obtained for it; and no interleaving makes
\* a call raise.
C14_ConcurrentEncodeLastWriteWins ==
    /\ \A r \in Encoders : encoders[r].pc # "raised"
    /\ \A q \in Queries :
           BothEncodedUncached(q) =>
               /\ \A r \in Encoders :
                      Len(encoders[r].result) = Len(encoders[r].query_data)
               /\ cache[q] # None
               /\ cache[q] = writes[q]
               /\ cache[q] \in {encoders[r].new_embeddings[q] : r \in Encoders}

\* the two calls obtained different vectors for the query and both stored
\* theirs
C14_Witness ==
    \E q \in Queries :
        /\ BothEncodedUncached(q)
        /\ encoders["r1"].new_embeddings[q] # encoders["r2"].new_embeddings[q]
        /\ cache[q] = encoders["r1"].new_embeddings[q]
        /\ Len(encoders["r2"].result) = 2

\* entry i of the batch carries a stored embedding
HasStored(i) == call.query_data[i][2] # None

\* C15: a key the cache holds keeps its value and is not sent to the
\* provider; in the result an entry with a stored embedding has that
\* embedding, whatever cache and provider hold, and an entry without one,
\* whose query is cached, has the cached vector.
C15_StoredThenCacheThenProvider ==
    IsEncode =>
        /\ \A q \in Queries :
               call.cache_before[q] # None =>
                   /\ cache[q] = call.cache_before[q]
                   /\ q \notin call.sent
        /\ (call.outcome = "returned" /\ call.embeddings # <<>>) =>
               \A i \in 1..Len(call.query_data) :
                   /\ HasStored(i) => call.embeddings[i] = call.query_data[i][2]
                   /\ (/\ ~HasStored(i)
                       /\ call.cache_before[BatchQueries[i]] # None
                       /\ \A j \in 1..Len(call.query_data) :
                              BatchQueries[j] = BatchQueries[i] => ~HasStored(j))
                      => call.embeddings[i] = call.cache_before[BatchQueries[i]]

\* C16: the method of every analyze_trending answer is one of
\* "vector_embeddings", "semantic_clustering_variant", "frequency_fallback",
\* "single_query" and "no_data".
C16_MethodIsOneOfFive ==
    IsAnalyze =>
        call.response.method \in {"vector_embeddings", "semantic_clustering_variant",
                                  "frequency_fallback", "single_query", "no_data"}

IsSemantic == IsAnalyze /\ call.response.method = "vertex_ai_embeddings"

\* entry i has another entry at or above the similarity threshold
HasPartner(i) ==
    \E j \in (1..Len(call.embeddings)) \ {i} :
        SimAtLeast(cosine_similarity(call.embeddings[i], call.embeddings[j]),
                   similarity_threshold.p, similarity_threshold.q)

\* C17: on the semantic path every returned category has at least two
\* members, and an entry with no sufficiently similar partner is in no
\* returned category.
C17_NoSingletonCategory ==
    IsSemantic =>
        /\ \A k \in 1..Len(Categories) :
               /\ Categories[k].query_count >= 2
               /\ Cardinality(Categories[k].cluster_indices) >= 2
        /\ \A i \in 1..Len(call.embeddings) : ~HasPartner(i) => i \notin Covered

\* a cluster of two is reported and a third entry, similar to nothing else,
\* is left out although top_n has room for it
C17_Witness ==
    /\ IsSemantic
    /\ Len(Categories) = 1
    /\ call.n = 2
    /\ \E i \in 1..Len(call.embeddings) : ~HasPartner(i)

IsCreate == call.op = "create_clusters"

\* entries i and j of the clustered batch meet the similarity threshold
Similar(i, j) ==
    SimAtLeast(cosine_similarity(call.embeddings[i], call.embeddings[j]),
               similarity_threshold.p, similarity_threshold.q)

SameCluster(i, j) ==
    \E k \in 1..Len(call.clusters) : {i, j} \subseteq Range(call.clusters[k])

\* the entries taken by the clusters before cluster k
TakenBefore(k) == UNION {Range(call.clusters[l]) : l \in 1..(k - 1)}

\* C18 as stated: any two entries whose similarity meets the threshold are
\* in the same cluster (and with them, since no entry is in two clusters,
\* any entries linked through a chain of such pairs).
C18_GroupingIsTransitive ==
    IsCreate =>
        \A i, j \in 1..Len(call.embeddings) : Similar(i, j) => SameCluster(i, j)

\* C18 amended: grouping is one pass in input order.  No entry is in two
\* clusters and every entry is in one; each cluster lists, in input order,
\* the earliest entry not taken before and exactly the entries not taken
\* before that meet the threshold against that entry.
C18_SinglePassGrouping ==
    IsCreate =>
        LET N == Len(call.embeddings)
        IN  /\ \A k, l \in 1..Len(call.clusters) :
                   k # l => Range(call.clusters[k]) \cap Range(call.clusters[l]) = {}
            /\ TakenBefore(Len(call.clusters) + 1) = 1..N
            /\ \A k \in 1..Len(call.clusters) :
                   LET cluster == call.clusters[k]
                       free == (1..N) \ TakenBefore(k)
                   IN  /\ cluster # <<>>
                       /\ \A m \in 1..(Len(cluster) - 1) : cluster[m] < cluster[m + 1]
                       /\ \A j \in free : cluster[1] <= j
                       /\ Range(cluster) = {j \in free : Similar(cluster[1], j)}

\* two entries that meet the threshold end in different clusters, one of
\* them having been taken by an earlier cluster
C18_Witness ==
    /\ IsCreate
    /\ Len(call.clusters) >= 2
    /\ \E i, j \in 1..Len(call.embeddings) : Similar(i, j) /\ ~SameCluster(i, j)

IsSemanticClustering == call.op = "semantic_clustering"

Clamp(x, lo, hi) == Max(lo, Min(x, hi))

\* the number of partitions the fallback is to make of N entries
FallbackK(N) == Clamp(N \div 3, 2, 10)

\* labels cuts 1..N into k parts (all of them used when N >= k) and every
\* returned category is one of the parts
FromPartition(labels, N, k) ==
    /\ (N >= k => \A p \in 1..k : \E i \in 1..N : labels[i] = p)
    /\ \A c \in 1..Len(call.categories) :
           \E p \in 1..k :
               call.categories[c].cluster_indices = {i \in 1..N : labels[i] = p}

\* C19: when the threshold pass over N entries makes fewer than 2 or more
\* than N/2 clusters, the returned categories are parts of one partition of
\* the N entries into k = clamp(N/3, 2, 10) parts.
C19_DegenerateCountRepartitions ==
    LET N == Len(call.embeddings)
    IN  (/\ IsSemanticClustering
         /\ (Len(call.clusters) < 2 \/ 2 * Len(call.clusters) > N))
        => \E labels \in [1..N -> 1..FallbackK(N)] :
               FromPartition(labels, N, FallbackK(N))

\* the first member of a category, by position in the input
FirstMember(category) ==
    CHOOSE i \in category.cluster_indices :
        \A j \in category.cluster_indices : i <= j

\* the clusters of the threshold pass that are large enough to be reported
Reportable == {k \in 1..Len(call.clusters) : Len(call.clusters[k]) >= 2}

\* a category of count x and first member f goes before one of count y and
\* first member g
RanksBefore(x, f, y, g) == x > y \/ (x = y /\ f < g)

\* C20: the categories of the semantic path are in descending query_count,
\* equal counts in the order of their first members in the input, and for
\* top_n >= 0 they are the first top_n of all reportable clusters so ordered.
C20_SortedThenTruncated ==
    IsSemanticClustering =>
        /\ \A k, l \in 1..Len(call.categories) :
               k < l => RanksBefore(call.categories[k].query_count,
                                    FirstMember(call.categories[k]),
                                    call.categories[l].query_count,
                                    FirstMember(call.categories[l]))
        /\ \A c \in 1..Len(call.categories) :
               \E k \in Reportable :
                   call.categories[c].cluster_indices = Range(call.clusters[k])
        /\ call.n >= 0 =>
               /\ Len(call.categories) = Min(call.n, Cardinality(Reportable))
               /\ \A k \in Reportable :
                      \/ \E c \in 1..Len(call.categories) :
                             call.categories[c].cluster_indices = Range(call.clusters[k])
                      \/ \A c \in 1..Len(call.categories) :
                             RanksBefore(call.categories[c].query_count,
                                         FirstMember(call.categories[c]),
                                         Len(call.clusters[k]),
                                         call.clusters[k][1])

\* two reportable clusters, the later one larger: with top_n = 1 only the
\* later one is returned
C20_Witness ==
    /\ IsSemanticClustering
    /\ call.n = 1
    /\ Cardinality(Reportable) = 2
    /\ Len(call.categories) = 1
    /\ call.categories[1].query_count = 3
    /\ FirstMember(call.categories[1]) > 1
    /\ Len(call.clusters[1]) = 2

IsName == call.op = "extract_category_name"

\* the whitespace-separated words of the name
NameTokens == Split(call.category_name)

IsStopword(word) == Lower(word) \in ENGLISH_STOPWORDS

\* the words of the representative query that can serve as keywords
Keywords ==
    SelectSeq(Split(Lower(call.request)),
              LAMBDA word : Len(word) > 2 /\ IsAlphaWord(word) /\ ~IsStopword(word))

\* C21 as stated: no word of the category name is a stopword, whatever the
\* representative query.
C21_NameHasNoStopword ==
    IsName => \A k \in 1..Len(NameTokens) : ~IsStopword(NameTokens[k])

\* C21 amended: when the representative query has a keyword (longer than 2,
\* alphabetic, not a stopword) the name is its first three keywords,
\* capitalised, and holds no stopword; when it has none the name is the
\* whole query title-cased, stopwords included.
C21_NameFromKeywordsElseQuery ==
    IsName =>
        /\ Keywords # <<>> =>
               /\ \A k \in 1..Len(NameTokens) : ~IsStopword(NameTokens[k])
               /\ Len(NameTokens) = Min(3, Len(Keywords))
               /\ \A k \in 1..Len(NameTokens) :
                      /\ Lower(NameTokens[k]) = Keywords[k]
                      /\ NameTokens[k] = Title(Keywords[k])
        /\ Keywords = <<>> => call.category_name = Title(call.request)

\* a query of a stopword and a keyword is named by the keyword alone
C21_Witness ==
    /\ IsName
    /\ \E k \in 1..Len(Split(call.request)) : IsStopword(Split(call.request)[k])
    /\ Len(Keywords) = 1
    /\ call.category_name = <<"T", "o", "x">>

IsFrequency == IsAnalyze /\ call.response.method = "frequency_fallback"

\* the positions at which query q occurs in the batch
Occurrences(q) == {i \in 1..Len(BatchQueries) : BatchQueries[i] = q}

FirstOccurrence(q) == CHOOSE i \in Occurrences(q) : \A j \in Occurrences(q) : i <= j

\* C22: on the frequency path no query has two categories; a category
\* carries its query as name, the number of its occurrences as query_count
\* and 100 * count / len(input) as percentage; categories are in descending
\* count, ties in first-occurrence order; and they are the first top_n of
\* the distinct queries so ordered (none for top_n <= 0).
C22_FrequencyRanking ==
    IsFrequency =>
        /\ \A k, l \in 1..Len(Categories) :
               k # l => Categories[k].representative_query
                            # Categories[l].representative_query
        /\ \A k \in 1..Len(Categories) :
               LET q == Categories[k].representative_query
               IN  /\ q \in Range(BatchQueries)
                   /\ Categories[k].category_name = q
                   /\ Categories[k].query_count = Cardinality(Occurrences(q))
                   /\ Categories[k].percentage_of_total.num
                          * Len(BatchQueries)
                      = 100 * Cardinality(Occurrences(q))
                          * Categories[k].percentage_of_total.den
        /\ \A k, l \in 1..Len(Categories) :
               k < l => RanksBefore(Categories[k].query_count,
                                    FirstOccurrence(Categories[k].representative_query),
                                    Categories[l].query_count,
                                    FirstOccurrence(Categories[l].representative_query))
        /\ Len(Categories) = Min(Max(call.n, 0), Cardinality(Range(BatchQueries)))
        /\ \A q \in Range(BatchQueries) :
               \/ \E k \in 1..Len(Categories) : Categories[k].representative_query = q
               \/ \A k \in 1..Len(Categories) :
                      RanksBefore(Categories[k].query_count,
                                  FirstOccurrence(Categories[k].representative_query),
                                  Cardinality(Occurrences(q)), FirstOccurrence(q))

\* three distinct queries, the most frequent one not the first in the
\* input, and top_n = 2 leaving the last one out
C22_Witness ==
    /\ IsFrequency
    /\ call.n = 2
    /\ Cardinality(Range(BatchQueries)) = 3
    /\ Len(Categories) = 2
    /\ Categories[1].query_count = 2
    /\ FirstOccurrence(Categories[1].representative_query)
           > FirstOccurrence(Categories[2].representative_query)


\* ---------------------------------------------------------------- C23
IsReader == call.op \in {"get_recent_queries", "extract_dataset_queries"}
Cleaned(row) == Strip(Lower(row[1]))
\* the first row of the input whose cleaned string is s
FirstRow(s) ==
    CHOOSE k \in 1..Len(call.rows) :
        /\ Cleaned(call.rows[k]) = s
        /\ \A j \in 1..(k - 1) : Cleaned(call.rows[j]) # s

\* C23: the batch a reader hands over holds only lower-cased, trimmed strings
\* longer than 3 and no longer than the upper limit, holds no string twice,
\* keeps the order of first occurrence, and pairs each string with the
\* embedding of the first row it came from
C23_BatchIsCleanAndUnique ==
    IsReader =>
        LET batch == call.query_data
        IN  /\ \A k \in 1..Len(batch) :
                  LET s == batch[k][1]
                  IN  /\ Lower(s) = s
                      /\ Strip(s) = s
                      /\ Len(s) >= min_cleaned_len + 1
                      /\ Len(s) <= max_cleaned_len
                      /\ \E r \in 1..Len(call.rows) : Cleaned(call.rows[r]) = s
                      /\ batch[k][2] = call.rows[FirstRow(s)][2]
            /\ \A k, l \in 1..Len(batch) :
                  k < l => /\ batch[k][1] # batch[l][1]
                           /\ FirstRow(batch[k][1]) < FirstRow(batch[l][1])

\* a search-log batch of two strings out of three rows, the repeated string
\* stored with different embeddings, its first row being the one kept
C23_Witness ==
    /\ call.op = "get_recent_queries"
    /\ Len(call.rows) = 3
    /\ Len(call.query_data) = 2
    /\ call.rows[1][1] # Cleaned(call.rows[1])
    /\ Cleaned(call.rows[1]) = Cleaned(call.rows[3])
    /\ call.rows[1][2] # call.rows[3][2]
    /\ call.query_data[1][2] # None


\* ---------------------------------------------------------------- C24
\* the seed of cluster k: the entry being visited when it was formed, the
\* earliest one in no cluster before it
Seed(k) ==
    CHOOSE i \in (1..Len(call.embeddings)) \ TakenBefore(k) :
        \A j \in (1..Len(call.embeddings)) \ TakenBefore(k) : i <= j

\* C24: the clusters of _create_clusters are pairwise disjoint, the members
\* of a cluster are in ascending input order, and every member of a cluster
\* meets the similarity threshold against the cluster's seed
C24_DisjointAscendingNearSeed ==
    IsCreate =>
        /\ \A k, l \in 1..Len(call.clusters) :
               \A m \in 1..Len(call.clusters[k]), n \in 1..Len(call.clusters[l]) :
                   call.clusters[k][m] = call.clusters[l][n] => (k = l /\ m = n)
        /\ \A k \in 1..Len(call.clusters) :
               \A m, n \in 1..Len(call.clusters[k]) :
                   m < n => call.clusters[k][m] < call.clusters[k][n]
        /\ \A k \in 1..Len(call.clusters) :
               \A m \in 1..Len(call.clusters[k]) :
                   Similar(Seed(k), call.clusters[k][m])

\* a second cluster of two members formed around a seed that the first
\* cluster left out, its members not adjacent in the input
C24_Witness ==
    /\ IsCreate
    /\ Len(call.clusters) >= 2
    /\ Len(call.clusters[1]) >= 2
    /\ Len(call.clusters[2]) >= 2
    /\ Seed(2) > 1
    /\ ~Similar(Seed(1), Seed(2))
    /\ call.clusters[2][2] > call.clusters[2][1] + 1


\* ---------------------------------------------------------------- C30
IsRetry == call.op = "encode_queries" /\ call.retry
\* the queries the failed call found in neither the input nor the cache
FailedUncached ==
    UncachedQueries(QueriesToFetch(call.query_data), call.failed_cache)
\* the queries of the batches before the failing one, and of it and later
EarlierBatches ==
    {FailedUncached[i] :
        i \in 1..Min((call.failed_batch - 1) * batch_size, Len(FailedUncached))}
LaterBatches ==
    {FailedUncached[i] :
        i \in ((call.failed_batch - 1) * batch_size + 1)..Len(FailedUncached)}

\* C30: when the provider failed on batch k the call returned an empty
\* result, the embeddings of batches 1..k-1 are in the cache when the same
\* input is retried, and the retry hands the provider only queries of batch
\* k and later, none of the earlier ones
C30_RetryResumesAtFailedBatch ==
    IsRetry =>
        /\ call.failed_embeddings = <<>>
        /\ \A q \in EarlierBatches : call.cache_before[q] # None
        /\ call.sent \subseteq LaterBatches
        /\ call.sent \cap EarlierBatches = {}

\* the provider failed on the second batch and the retry sends it the one
\* query of that batch
C30_Witness ==
    /\ IsRetry
    /\ call.failed_batch = 2
    /\ EarlierBatches # {}
    /\ \A q \in EarlierBatches : call.failed_cache[q] = None
    /\ call.sent # {}
    /\ call.embeddings # <<>>


\* ---------------------------------------------------------------- C25
IsUpdate == http.op = "update_dataset_version"
\* the versions of the request's dataset before the request
VersionsBefore == {v \in http.versions_before : v.dataset = http.id}
\* the versions the request names by current_version_number
Named ==
    {v \in VersionsBefore : v.version_number = http.body.current_version_number}
OwnedByCaller == \E d \in datasets : d.id = http.id /\ d.owner = http.caller
Unchanged ==
    /\ versions = http.versions_before
    /\ files = http.files_before
    /\ storage = http.storage_before

\* C25: a version update succeeds only when the dataset is the caller's and
\* current_version_number names its highest-numbered version; a request that
\* names an older version or none is answered with 400 and leaves versions,
\* files and blobs as they were
C25_OnlyLatestVersionUpdated ==
    IsUpdate =>
        /\ http.status = 201 =>
               /\ OwnedByCaller
               /\ Named # {}
               /\ \A v \in VersionsBefore :
                      v.version_number <= http.body.current_version_number
        /\ (\/ Named = {}
            \/ \E v \in VersionsBefore :
                   v.version_number > http.body.current_version_number)
           => (http.status = 400 /\ Unchanged)

\* the owner names version 1 of a dataset that has a version 2
C25_Witness ==
    /\ IsUpdate
    /\ OwnedByCaller
    /\ http.body.current_version_number = 1
    /\ Named # {}
    /\ \E v \in VersionsBefore : v.version_number = 2
    /\ http.status = 400

\* ---------------------------------------------------------------- C26
\* how many times a list holds a value
TimesIn(list, x) == Cardinality({k \in 1..Len(list) : list[k] = x})
\* the current version's files, by their fields, in the order of their keys
CurrentFiles ==
    LET rows == RowsWithIds({df \in http.files_before :
                                \E v \in Named : df.dataset_version = v.id},
                            Range(FileIds))
    IN  [k \in 1..Len(rows) |-> FieldsOfRow(rows[k])]
\* the new version would hold each file as many times as the current one
SameFiles ==
    \A x \in Range(CurrentFiles) \cup Range(http.body.dataset_files) :
        TimesIn(CurrentFiles, x) = TimesIn(http.body.dataset_files, x)

\* C26: a version update that names the latest version and valid ids to
\* retain is refused with 400 exactly when the new version would hold the
\* same files as the current one, and a refused request creates no version
C26_RefusedIffSameFiles ==
    (IsUpdate /\ http.body.compared) =>
        /\ http.status = 400 <=> SameFiles
        /\ http.status = 400 => Unchanged

\* ---------------------------------------------------------------- C27
IsRead == http.op \in {"search_dataset", "retrieve_dataset"}

\* C27: the search and the retrieve endpoint return a dataset that is not
\* public to its owner only, whatever the filters
C27_PrivateOnlyToOwner ==
    IsRead =>
        \A dataset \in http.returned :
            dataset.is_public \/ dataset.owner = http.caller

\* a search without filters by a logged-in member who does not own the one
\* dataset, which is private, and gets nothing
C27_Witness ==
    /\ http.op = "search_dataset"
    /\ http.caller \in Users
    /\ ~http.body.search.present
    /\ ~http.body.file_types.present
    /\ ~http.body.licenses.present
    /\ \E dataset \in datasets : ~dataset.is_public /\ dataset.owner # http.caller
    /\ http.returned = {}

\* ---------------------------------------------------------------- C28
\* C28: every DatasetFile row refers by upload_id to a blob in the bucket
C28_FilesHaveBlobs ==
    \A df \in files : df.upload_id \in storage


\* ---------------------------------------------------------------- C29
Done(p) == updates[p].pc = "done"
Created(p) == Done(p) /\ updates[p].status = 201

\* C29: no two versions of a dataset share a version number or a version
\* label; an update that succeeds has created the version numbered one above
\* the version it named; of two updates in progress together that name the
\* same version of a dataset at most one creates the new version
C29_VersionNumbersUnique ==
    /\ \A v, w \in versions :
           (v # w /\ v.dataset = w.dataset) =>
               /\ v.version_number # w.version_number
               /\ v.version_label # w.version_label
    /\ \A p \in Updaters :
           Created(p) =>
               \E v \in versions :
                   /\ v.id = updates[p].created
                   /\ v.dataset = updates[p].id
                   /\ v.version_number = updates[p].current_version_number + 1
    /\ \A p, q \in Updaters :
           (/\ p # q
            /\ Created(p)
            /\ Created(q)
            /\ updates[p].id = updates[q].id)
           => updates[p].current_version_number # updates[q].current_version_number

\* two updates that both passed the latest-version test for version 1: one
\* has created version 2, the other was stopped at its insert
C29_Witness ==
    /\ Created("p1")
    /\ Done("p2")
    /\ updates["p2"].status = 500
    /\ updates["p1"].id = updates["p2"].id
    /\ updates["p1"].current_version_number = 1
    /\ updates["p2"].current_version_number = 1

====
